---- MODULE Spec2Model ----
(***************************************************************************)
(* Model of the schema-normalisation core of covid-data-public:            *)
(*   covidactnow/datapublic/common_df.py   fix_df_index, write_csv,        *)
(*                                         read_csv,                       *)
(*                                         sort_common_field_columns       *)
(*   covidactnow/datapublic/common_fields.py  CommonFields and its order   *)
(*   scripts/update_helpers.py             rename_fields                   *)
(*                                                                         *)
(* A DataFrame is a record                                                 *)
(*   [idx  |-> names of the index levels (<<>> is the unnamed default      *)
(*             index, whose index.names is [None]),                        *)
(*    cols |-> names of the columns, in order,                             *)
(*    rows |-> sequence of [k |-> index values, v |-> column values]]      *)
(* Cell values are records: a number in decimal scientific form, a text    *)
(* (sequence of characters), a Timestamp, or a missing value.              *)
(***************************************************************************)
EXTENDS Integers, Sequences, FiniteSets, TLC

(***************************************************************************)
(* Bounds of the model.                                                    *)
(***************************************************************************)
MaxRows == 2

(***************************************************************************)
(* Generic helpers.                                                        *)
(***************************************************************************)
Range(s) == {s[i] : i \in 1..Len(s)}

\* Position of the first occurrence of x in s, 0 when absent.
Pos(s, x) ==
    IF \E i \in 1..Len(s) : s[i] = x
    THEN CHOOSE i \in 1..Len(s) : s[i] = x /\ \A j \in 1..(i-1) : s[j] # x
    ELSE 0

RECURSIVE SelectSeqIdx(_, _, _)
\* The elements of s whose positions are in keep, order preserved.
SelectSeqIdx(s, keep, i) ==
    IF i > Len(s) THEN <<>>
    ELSE (IF i \in keep THEN <<s[i]>> ELSE <<>>) \o SelectSeqIdx(s, keep, i + 1)

\* Sequences over S of length 0..n.
SeqsUpTo(S, n) == UNION {[1..k -> S] : k \in 0..n}

RECURSIVE Repeat(_, _)
Repeat(x, n) == IF n <= 0 THEN <<>> ELSE <<x>> \o Repeat(x, n - 1)

(***************************************************************************)
(* Characters and text.  A text is a sequence of one-character strings.    *)
(* Chars lists the characters the model uses in code-point order, which    *)
(* is the order Python compares str values by.                             *)
(***************************************************************************)
Chars == <<"+", "-", ".", "0", "1", "2", "3", "4", "5", "6", "7", "8", "9", "e">>

Digits == <<"0", "1", "2", "3", "4", "5", "6", "7", "8", "9">>

IsDigit(c) == c \in Range(Digits)

DigitOf(c) == Pos(Digits, c) - 1

DigitChar(d) == Digits[d + 1]

RECURSIVE TextLess(_, _)
\* Python's str < str: lexicographic by code point, a proper prefix first.
TextLess(a, b) ==
    IF Len(b) = 0 THEN FALSE
    ELSE IF Len(a) = 0 THEN TRUE
    ELSE IF a[1] # b[1] THEN Pos(Chars, a[1]) < Pos(Chars, b[1])
    ELSE TextLess(Tail(a), Tail(b))

(***************************************************************************)
(* Cell values.                                                            *)
(*   number: sign, significant digits d1 d2 .. dn and exponent e, meaning  *)
(*           d1.d2..dn * 10^e; normalised (d1 # 0, dn # 0; zero is <<0>>). *)
(***************************************************************************)
NA == [k |-> "na"]

Str(chars) == [k |-> "str", s |-> chars]

Ts(y, m, d, tod) == [k |-> "ts", y |-> y, m |-> m, d |-> d, tod |-> tod]

Zero == [k |-> "num", neg |-> FALSE, digits |-> <<0>>, exp |-> 0]

RECURSIVE StripLeadingZeros(_, _)
\* <<digits, exp>> with leading zero digits removed, lowering the exponent.
StripLeadingZeros(ds, e) ==
    IF Len(ds) = 0 THEN <<ds, e>>
    ELSE IF ds[1] = 0 THEN StripLeadingZeros(Tail(ds), e - 1)
    ELSE <<ds, e>>

RECURSIVE StripTrailingZeros(_)
StripTrailingZeros(ds) ==
    IF Len(ds) = 0 THEN ds
    ELSE IF ds[Len(ds)] = 0 THEN StripTrailingZeros(SubSeq(ds, 1, Len(ds) - 1))
    ELSE ds

\* The normalised number with the given sign, digit string and exponent of
\* the first digit.
Num(neg, ds, e) ==
    LET lead == StripLeadingZeros(ds, e)
        body == StripTrailingZeros(lead[1])
    IN  IF Len(body) = 0 THEN Zero
        ELSE [k |-> "num", neg |-> neg, digits |-> body, exp |-> lead[2]]

IsNum(v) == v.k = "num"

IsNA(v) == v.k = "na"

\* A number with no fractional part.
IsIntegral(v) == v.exp >= Len(v.digits) - 1

(***************************************************************************)
(* Number formatting as DataFrame.to_csv does it for write_csv:            *)
(* float_format="%.12g" for float64 columns, plain digits for Int64.       *)
(***************************************************************************)
SigDigits == 12

RECURSIVE AddOne(_)
\* <<digits, carry>>: the digit string plus one unit in its last place.
AddOne(ds) ==
    IF Len(ds) = 0 THEN <<ds, 1>>
    ELSE LET last == ds[Len(ds)]
             init == SubSeq(ds, 1, Len(ds) - 1)
         IN  IF last < 9 THEN <<Append(init, last + 1), 0>>
             ELSE LET r == AddOne(init) IN <<Append(r[1], 0), r[2]>>

\* v rounded to p significant digits (ties to even, as printf rounds).
RoundSig(v, p) ==
    IF Len(v.digits) <= p THEN v
    ELSE LET keep == SubSeq(v.digits, 1, p)
             rest == SubSeq(v.digits, p + 1, Len(v.digits))
             up   == \/ rest[1] > 5
                     \/ rest[1] = 5 /\ Len(rest) > 1
                     \/ rest[1] = 5 /\ Len(rest) = 1 /\ keep[p] % 2 = 1
             inc  == AddOne(keep)
         IN  IF ~up THEN Num(v.neg, keep, v.exp)
             ELSE IF inc[2] = 1 THEN Num(v.neg, <<1>> \o inc[1], v.exp + 1)
             ELSE Num(v.neg, inc[1], v.exp)

DigitText(ds) == [i \in 1..Len(ds) |-> DigitChar(ds[i])]

RECURSIVE NatText(_)
NatText(n) == IF n < 10 THEN <<DigitChar(n)>> ELSE Append(NatText(n \div 10), DigitChar(n % 10))

SignText(v) == IF v.neg THEN <<"-">> ELSE <<>>

\* The integer digits of an integral number, zero padded up to the units.
IntText(v) ==
    SignText(v) \o DigitText(v.digits) \o Repeat("0", v.exp + 1 - Len(v.digits))

\* printf("%.12g"): SigDigits significant digits, trailing zeros removed,
\* exponent style when the exponent is < -4 or >= the precision.
FormatG(v) ==
    LET r == RoundSig(v, SigDigits)
        n == Len(r.digits)
        x == r.exp
        ax == IF x < 0 THEN 0 - x ELSE x
    IN  IF x < 0 - 4 \/ x >= SigDigits
        THEN SignText(r) \o <<DigitChar(r.digits[1])>>
             \o (IF n > 1 THEN <<".">> \o DigitText(Tail(r.digits)) ELSE <<>>)
             \o <<"e", IF x < 0 THEN "-" ELSE "+">>
             \o (IF ax < 10 THEN <<"0">> ELSE <<>>) \o NatText(ax)
        ELSE IF x >= 0
        THEN IF n <= x + 1 THEN IntText(r)
             ELSE SignText(r) \o DigitText(SubSeq(r.digits, 1, x + 1))
                  \o <<".">> \o DigitText(SubSeq(r.digits, x + 2, n))
        ELSE SignText(r) \o <<"0", ".">> \o Repeat("0", ax - 1) \o DigitText(r.digits)

\* strftime("%Y-%m-%d") of a Timestamp: the time of day is not written.
Pad2(n) == (IF n < 10 THEN <<"0">> ELSE <<>>) \o NatText(n)

FormatDate(v) == NatText(v.y) \o <<"-">> \o Pad2(v.m) \o <<"-">> \o Pad2(v.d)

(***************************************************************************)
(* Parsing of CSV fields as pandas.read_csv does it for read_csv.          *)
(***************************************************************************)
RECURSIVE SpanDigits(_, _)
\* Number of consecutive digit characters of s starting at position i.
SpanDigits(s, i) ==
    IF i > Len(s) THEN 0
    ELSE IF IsDigit(s[i]) THEN 1 + SpanDigits(s, i + 1)
    ELSE 0

RECURSIVE NatOf(_)
NatOf(s) == IF Len(s) = 0 THEN 0 ELSE NatOf(SubSeq(s, 1, Len(s) - 1)) * 10 + DigitOf(s[Len(s)])

NotParsed == [ok |-> FALSE, v |-> NA]

\* [sign] digits [. digits] [e [sign] digits], the whole field.
ParseNumber(s) ==
    LET i1    == IF Len(s) >= 1 /\ s[1] \in {"+", "-"} THEN 2 ELSE 1
        neg   == Len(s) >= 1 /\ s[1] = "-"
        nInt  == SpanDigits(s, i1)
        iDot  == i1 + nInt
        dot   == iDot <= Len(s) /\ s[iDot] = "."
        nFrac == IF dot THEN SpanDigits(s, iDot + 1) ELSE 0
        iExp  == IF dot THEN iDot + 1 + nFrac ELSE iDot
        hasE  == iExp <= Len(s) /\ s[iExp] = "e"
        iSgn  == iExp + 1
        eNeg  == hasE /\ iSgn <= Len(s) /\ s[iSgn] = "-"
        iEd   == IF hasE /\ iSgn <= Len(s) /\ s[iSgn] \in {"+", "-"} THEN iSgn + 1 ELSE iSgn
        nExp  == IF hasE THEN SpanDigits(s, iEd) ELSE 0
        iEnd  == IF hasE THEN iEd + nExp ELSE iExp
        mant  == [i \in 1..(nInt + nFrac) |->
                    DigitOf(IF i <= nInt THEN s[i1 + i - 1] ELSE s[iDot + i - nInt])]
        ev    == IF hasE THEN NatOf(SubSeq(s, iEd, iEd + nExp - 1)) ELSE 0
    IN  IF nInt + nFrac = 0 \/ (hasE /\ nExp = 0) \/ iEnd # Len(s) + 1
        THEN NotParsed
        ELSE [ok |-> TRUE, v |-> Num(neg, mant, nInt - 1 + (IF eNeg THEN 0 - ev ELSE ev))]

\* A field pandas reads as missing.  Of pandas' NA literals only the empty
\* field can be written with the characters of Chars.
IsNAText(s) == s = <<>>

\* parse_dates on an ISO YYYY-MM-DD field gives a midnight Timestamp.
ParseDate(s) ==
    IF /\ Len(s) = 10
       /\ s[5] = "-" /\ s[8] = "-"
       /\ \A i \in {1, 2, 3, 4, 6, 7, 9, 10} : IsDigit(s[i])
    THEN [k |-> "ts", y |-> NatOf(SubSeq(s, 1, 4)), m |-> NatOf(SubSeq(s, 6, 7)),
          d |-> NatOf(SubSeq(s, 9, 10)), tod |-> 0]
    ELSE Str(s)

(***************************************************************************)
(* common_fields.py: the field registry and the timeseries keys.           *)
(***************************************************************************)
CommonFields ==
    << "fips", "date", "state", "country", "county", "aggregate_level",
       "state_full_name", "cases", "deaths", "recovered", "new_cases",
       "new_deaths", "weekly_new_cases", "weekly_new_deaths", "model_abbr",
       "forecast_date", "quantile", "cumulative_hospitalized", "cumulative_icu",
       "positive_tests", "negative_tests", "total_tests", "current_icu",
       "current_hospitalized", "current_ventilated", "population",
       "staffed_beds", "licensed_beds", "icu_beds", "all_beds_occupancy_rate",
       "icu_occupancy_rate", "max_bed_count", "ventilator_capacity",
       "hospital_beds_in_use_any", "current_hospitalized_total",
       "current_icu_total", "contact_tracers_count", "latitude", "longitude" >>

\* The member names of CommonFields, in declaration order: member i has the
\* name CommonFieldsNames[i] and the value CommonFields[i].
CommonFieldsNames ==
    << "FIPS", "DATE", "STATE", "COUNTRY", "COUNTY", "AGGREGATE_LEVEL",
       "STATE_FULL_NAME", "CASES", "DEATHS", "RECOVERED", "NEW_CASES",
       "NEW_DEATHS", "WEEKLY_NEW_CASES", "WEEKLY_NEW_DEATHS", "MODEL_ABBR",
       "FORECAST_DATE", "QUANTILE", "CUMULATIVE_HOSPITALIZED", "CUMULATIVE_ICU",
       "POSITIVE_TESTS", "NEGATIVE_TESTS", "TOTAL_TESTS", "CURRENT_ICU",
       "CURRENT_HOSPITALIZED", "CURRENT_VENTILATED", "POPULATION",
       "STAFFED_BEDS", "LICENSED_BEDS", "ICU_BEDS", "ALL_BED_TYPICAL_OCCUPANCY_RATE",
       "ICU_TYPICAL_OCCUPANCY_RATE", "MAX_BED_COUNT", "VENTILATOR_CAPACITY",
       "HOSPITAL_BEDS_IN_USE_ANY", "CURRENT_HOSPITALIZED_TOTAL",
       "CURRENT_ICU_TOTAL", "CONTACT_TRACERS_COUNT", "LATITUDE", "LONGITUDE" >>

\* Variant: the lookup goes by member name (cls.__members__), not by value.
CommonFieldsGet_by_member_name(value) == Pos(CommonFieldsNames, value)

\* CommonFields.get(value): cls._value2member_map_.get(value, None), the
\* member as its position in the enum, 0 for None.
CommonFieldsGet(value) == Pos(CommonFields, value)

COMMON_FIELDS_TIMESERIES_KEYS == <<"fips", "date">>

\* {common: i for i, common in enumerate(CommonFields)}, as the set of its keys
\* and the lookup of a key.
COMMON_FIELDS_ORDER_MAP(col) == Pos(CommonFields, col) - 1

InOrderMap(col) == col \in Range(CommonFields)

(***************************************************************************)
(* Orders.  NameOrder lists every column name of the model in code-point   *)
(* order, the order sorted() gives to str.                                 *)
(***************************************************************************)
NameOrder ==
    << "cases", "cases_total", "country", "date", "deaths", "dt", "extra1", "extra2",
       "fips", "foobar", "index", "location", "new_cases", "positive_tests",
       "positive_tests_total", "recovered", "tests_total" >>

NameLess(a, b) == Pos(NameOrder, a) < Pos(NameOrder, b)

\* Stable sort of s, less[i][j] telling whether s[i] sorts before s[j] (a
\* strict weak order): the element at rank r is the one with r - 1 elements
\* before it (smaller, or equal and earlier).
StableSort(s, less) ==
    LET Before(j, i) == less[j][i] \/ (~less[i][j] /\ j < i)
        Rank(i) == Cardinality({j \in 1..Len(s) : Before(j, i)}) + 1
    IN  [r \in 1..Len(s) |-> s[CHOOSE i \in 1..Len(s) : Rank(i) = r]]

\* sorted(names): less for the alphabetical order of a list of names.
NameLessOf(names) ==
    [i \in 1..Len(names) |-> [j \in 1..Len(names) |-> NameLess(names[i], names[j])]]

\* Order of index values of one level: str by code point, Timestamp by time.
ValLess(a, b) ==
    IF a.k = "str" /\ b.k = "str" THEN TextLess(a.s, b.s)
    ELSE IF a.k = "ts" /\ b.k = "ts"
    THEN \/ a.y < b.y
         \/ a.y = b.y /\ a.m < b.m
         \/ a.y = b.y /\ a.m = b.m /\ a.d < b.d
         \/ a.y = b.y /\ a.m = b.m /\ a.d = b.d /\ a.tod < b.tod
    ELSE FALSE

RECURSIVE KeyLess(_, _)
\* Lexicographic order of index tuples.
KeyLess(k1, k2) ==
    IF Len(k1) = 0 \/ Len(k2) = 0 THEN FALSE
    ELSE IF ValLess(k1[1], k2[1]) THEN TRUE
    ELSE IF ValLess(k2[1], k1[1]) THEN FALSE
    ELSE KeyLess(Tail(k1), Tail(k2))

RowLess(r1, r2) == KeyLess(r1.k, r2.k)

(***************************************************************************)
(* DataFrame operations used by common_df.py.                              *)
(***************************************************************************)
EmptyTable == [idx |-> <<>>, cols |-> <<>>, rows |-> <<>>]

\* Variant: reset_index(drop=True), the index levels are thrown away.
reset_index_drop(t) ==
    [idx  |-> <<>>,
     cols |-> t.cols,
     rows |-> [i \in 1..Len(t.rows) |-> [k |-> <<>>, v |-> t.rows[i].v]]]

\* DataFrame.reset_index(): the index levels become the leading columns.
reset_index(t) ==
    [idx  |-> <<>>,
     cols |-> t.idx \o t.cols,
     rows |-> [i \in 1..Len(t.rows) |-> [k |-> <<>>, v |-> t.rows[i].k \o t.rows[i].v]]]

\* Variant: set_index followed by dropping the rows whose index value was
\* already seen (keep the first).
set_index_keep_first(t, keys) ==
    LET kp    == [j \in 1..Len(keys) |-> Pos(t.cols, keys[j])]
        rest  == {j \in 1..Len(t.cols) : t.cols[j] \notin Range(keys)}
        key(i) == [j \in 1..Len(keys) |-> t.rows[i].v[kp[j]]]
        first == {i \in 1..Len(t.rows) : \A h \in 1..(i - 1) : key(h) # key(i)}
        kept  == SelectSeqIdx(t.rows, first, 1)
    IN  [idx  |-> keys,
         cols |-> SelectSeqIdx(t.cols, rest, 1),
         rows |-> [i \in 1..Len(kept) |->
                     [k |-> [j \in 1..Len(keys) |-> kept[i].v[kp[j]]],
                      v |-> SelectSeqIdx(kept[i].v, rest, 1)]]]

\* DataFrame.set_index(keys): the named columns become the index, the
\* previous index is discarded, the row order is kept.
set_index(t, keys) ==
    LET kp   == [j \in 1..Len(keys) |-> Pos(t.cols, keys[j])]
        rest == {j \in 1..Len(t.cols) : t.cols[j] \notin Range(keys)}
    IN  [idx  |-> keys,
         cols |-> SelectSeqIdx(t.cols, rest, 1),
         rows |-> [i \in 1..Len(t.rows) |->
                     [k |-> [j \in 1..Len(keys) |-> t.rows[i].v[kp[j]]],
                      v |-> SelectSeqIdx(t.rows[i].v, rest, 1)]]]

\* Variant: the result of sort_index() is not kept.
sort_index_not_assigned(t) == t

\* Variant: the sort is followed by dropping the rows whose index value
\* repeats the one before (df[~df.index.duplicated()]).
sort_index_drop_duplicated(t) ==
    LET sorted == StableSort(t.rows,
            [i \in 1..Len(t.rows) |-> [j \in 1..Len(t.rows) |-> RowLess(t.rows[i], t.rows[j])]])
        first  == {i \in 1..Len(sorted) : i = 1 \/ sorted[i].k # sorted[i - 1].k}
    IN  [t EXCEPT !.rows = SelectSeqIdx(sorted, first, 1)]

\* Variant: an unstable sort, rows of equal index value come out in the
\* reverse of their input order.
sort_index_ties_reversed(t) ==
    LET reversed == [i \in 1..Len(t.rows) |-> t.rows[Len(t.rows) + 1 - i]]
    IN  [t EXCEPT !.rows = StableSort(reversed,
            [i \in 1..Len(reversed) |-> [j \in 1..Len(reversed) |->
                RowLess(reversed[i], reversed[j])]])]

\* DataFrame.sort_index(): rows in ascending index order, ties in input order.
sort_index(t) ==
    [t EXCEPT !.rows = StableSort(t.rows,
        [i \in 1..Len(t.rows) |-> [j \in 1..Len(t.rows) |-> RowLess(t.rows[i], t.rows[j])]])]

\* Variant: the result of drop() is not kept.
drop_column_not_assigned(t, name) == t

\* DataFrame.drop(columns=name)
drop_column(t, name) ==
    LET rest == {j \in 1..Len(t.cols) : t.cols[j] # name}
    IN  [t EXCEPT !.cols = SelectSeqIdx(t.cols, rest, 1),
                  !.rows = [i \in 1..Len(t.rows) |->
                              [t.rows[i] EXCEPT !.v = SelectSeqIdx(t.rows[i].v, rest, 1)]]]

\* Variant: the result of drop() is not kept.
drop_columns_not_assigned(t, names) == t

\* DataFrame.drop(columns=names) for a set of names
drop_columns(t, names) ==
    LET rest == {j \in 1..Len(t.cols) : t.cols[j] \notin names}
    IN  [t EXCEPT !.cols = SelectSeqIdx(t.cols, rest, 1),
                  !.rows = [i \in 1..Len(t.rows) |->
                              [t.rows[i] EXCEPT !.v = SelectSeqIdx(t.rows[i].v, rest, 1)]]]

\* df.loc[:, names]: the named columns in the given order.
select_columns(t, names) ==
    LET cp == [j \in 1..Len(names) |-> Pos(t.cols, names[j])]
    IN  [t EXCEPT !.cols = names,
                  !.rows = [i \in 1..Len(t.rows) |->
                              [t.rows[i] EXCEPT !.v = [j \in 1..Len(names) |-> t.rows[i].v[cp[j]]]]]]

\* Variant: every column in alphabetical order, the registry order ignored.
sort_columns_alphabetically(t) == select_columns(t, StableSort(t.cols, NameLessOf(t.cols)))

\* common_df.sort_common_field_columns
sort_common_field_columns(t) ==
    LET sorted_columns == StableSort(t.cols, NameLessOf(t.cols))
        this_columns_order(col) ==
            IF InOrderMap(col) THEN COMMON_FIELDS_ORDER_MAP(col)
            ELSE (Pos(sorted_columns, col) - 1) + Len(CommonFields)
        order_less == [i \in 1..Len(t.cols) |-> [j \in 1..Len(t.cols) |->
                          this_columns_order(t.cols[i]) < this_columns_order(t.cols[j])]]
    IN  select_columns(t, StableSort(t.cols, order_less))

Event(name) == [event |-> name]

\* Variant: the index names compared as a set, so [date, fips] passes as fixed.
index_names_differ_unordered(df) == Range(df.idx) # Range(COMMON_FIELDS_TIMESERIES_KEYS)

\* Variant: the names compared with a tuple, which no list of names equals.
index_names_differ_always(df) == TRUE

\* df.index.names != COMMON_FIELDS_TIMESERIES_KEYS
index_names_differ(df) == df.idx # COMMON_FIELDS_TIMESERIES_KEYS

\* The receiver of reset_index(inplace=False), set_index(..., inplace=False)
\* and sort_index() after the call: each returns a new table and leaves the
\* table it is called on as it was.
reset_index_receiver(t) == t

set_index_receiver(t, keys) == t

\* Variant: sort_index(inplace=True), the receiver itself is sorted.
sort_index_receiver_inplace(t) == sort_index(t)

sort_index_receiver(t) == t

\* The argument of fix_df_index after the call.  The parameter df names the
\* caller's table until the first assignment to df, so only the first
\* statement that runs has the caller's table as its receiver.
fix_df_index_arg(df) ==
    IF index_names_differ(df)
    THEN IF df.idx # <<>> THEN reset_index_receiver(df)
         ELSE IF Range(COMMON_FIELDS_TIMESERIES_KEYS) \subseteq Range(df.cols)
         THEN set_index_receiver(df, COMMON_FIELDS_TIMESERIES_KEYS)
         ELSE df
    ELSE sort_index_receiver(df)

\* common_df.fix_df_index: [df, logs, err, arg], err = "" when a table is
\* returned, arg the argument after the call.
fix_df_index(df) ==
    LET fix    == index_names_differ(df)
        log1   == IF fix THEN <<Event("Fixing DataFrame index")>> ELSE <<>>
        df1    == IF fix /\ df.idx # <<>> THEN reset_index(df) ELSE df
    IN  IF fix /\ ~(Range(COMMON_FIELDS_TIMESERIES_KEYS) \subseteq Range(df1.cols))
        THEN [df |-> EmptyTable, logs |-> log1, err |-> "KeyError",
              arg |-> fix_df_index_arg(df)]
        ELSE
        LET df2    == IF fix THEN set_index(df1, COMMON_FIELDS_TIMESERIES_KEYS) ELSE df1
            df3    == sort_index(df2)
            hasIdx == "index" \in Range(df3.cols)
            log2   == IF hasIdx THEN <<Event("Dropping column named 'index'")>> ELSE <<>>
            df4    == IF hasIdx THEN drop_column(df3, "index") ELSE df3
        IN  [df |-> sort_common_field_columns(df4), logs |-> log1 \o log2, err |-> "",
             arg |-> fix_df_index_arg(df)]

\* common_df.only_common_columns: [df, logs]
only_common_columns(df) ==
    LET extra_columns == {col \in Range(df.cols) : CommonFieldsGet(col) = 0}
    IN  IF extra_columns # {}
        THEN [df   |-> drop_columns(df, extra_columns),
              logs |-> << [event |-> "Dropping columns not in CommonFields",
                           extra_columns |-> extra_columns] >>]
        ELSE [df |-> df, logs |-> <<>>]

(***************************************************************************)
(* common_df.write_csv and common_df.read_csv.  A file is                  *)
(*   [exists, header |-> column names, lines |-> rows of field texts].     *)
(***************************************************************************)
NoFile == [exists |-> FALSE, header |-> <<>>, lines |-> <<>>]

Column(t, j) == [i \in 1..Len(t.rows) |-> t.rows[i].v[j]]

\* Variant: convert_dtypes() left out, numeric columns stay float64.
convert_dtypes_left_out(t) ==
    [j \in 1..Len(t.cols) |->
        IF \A v \in Range(Column(t, j)) : IsNA(v) \/ IsNum(v) THEN "float64" ELSE "object"]

\* df.replace({pd.NA: np.nan}).convert_dtypes(): the dtype each column gets.
\* A numeric column whose present values are all whole numbers becomes Int64,
\* any other numeric column stays float64, everything else is object.
convert_dtypes(t) ==
    [j \in 1..Len(t.cols) |->
        LET present == {v \in Range(Column(t, j)) : ~IsNA(v)}
        IN  IF \A v \in present : IsNum(v)
            THEN IF \A v \in present : IsIntegral(v) THEN "Int64" ELSE "float64"
            ELSE "object"]

\* Variant: float_format left out, so a float64 cell is written as str(float)
\* and a whole number gets a trailing ".0".
CellText_no_float_format(v, dtype) ==
    CASE v.k = "na"  -> <<>>
      [] v.k = "str" -> v.s
      [] v.k = "ts"  -> FormatDate(v)
      [] v.k = "num" /\ dtype = "Int64"   -> IntText(v)
      [] v.k = "num" /\ dtype = "float64" ->
            IF IsIntegral(v) THEN IntText(v) \o <<".", "0">> ELSE FormatG(v)

\* The text to_csv writes for one cell: na_rep "" for a missing value,
\* float_format for float64, date_format for Timestamps.
CellText(v, dtype) ==
    CASE v.k = "na"  -> <<>>
      [] v.k = "str" -> v.s
      [] v.k = "ts"  -> FormatDate(v)
      [] v.k = "num" /\ dtype = "Int64"   -> IntText(v)
      [] v.k = "num" /\ dtype = "float64" -> FormatG(v)

\* DataFrame.to_csv(path, date_format="%Y-%m-%d", index=True, float_format="%.12g")
to_csv(t, dtypes) ==
    [exists |-> TRUE,
     header |-> t.idx \o t.cols,
     lines  |-> [i \in 1..Len(t.rows) |->
                   [j \in 1..Len(t.idx) |-> CellText(t.rows[i].k[j], "object")]
                   \o [j \in 1..Len(t.cols) |-> CellText(t.rows[i].v[j], dtypes[j])]]]

\* Variant: "Writing DataFrame" is logged on entry, before the index is fixed.
write_csv_log_on_entry(df) ==
    LET fixed == fix_df_index(df)
        logs  == <<Event("Writing DataFrame")>> \o fixed.logs
    IN  IF fixed.err # ""
        THEN [csv |-> NoFile, logs |-> logs, err |-> fixed.err, arg |-> fixed.arg]
        ELSE [csv  |-> to_csv(fixed.df, convert_dtypes(fixed.df)),
              logs |-> logs,
              err  |-> "",
              arg  |-> fixed.arg]

\* common_df.write_csv: [csv, logs, err, arg], arg the argument after the
\* call.  After df = fix_df_index(df, log) the parameter names the returned
\* table, and replace() and convert_dtypes() return new tables again.
write_csv(df) ==
    LET fixed == fix_df_index(df)
    IN  IF fixed.err # ""
        THEN [csv |-> NoFile, logs |-> fixed.logs, err |-> fixed.err, arg |-> fixed.arg]
        ELSE [csv  |-> to_csv(fixed.df, convert_dtypes(fixed.df)),
              logs |-> fixed.logs \o <<Event("Writing DataFrame")>>,
              err  |-> "",
              arg  |-> fixed.arg]

\* pd.read_csv(..., parse_dates=[DATE], dtype={FIPS: str}): the values of the
\* column named name, given the texts of its fields.
ReadColumn(name, texts) ==
    LET present == {i \in 1..Len(texts) : ~IsNAText(texts[i])}
    IN  IF name = "fips"
        THEN [i \in 1..Len(texts) |-> IF i \in present THEN Str(texts[i]) ELSE NA]
        ELSE IF name = "date"
        THEN IF \A i \in present : ParseDate(texts[i]).k = "ts"
             THEN [i \in 1..Len(texts) |-> IF i \in present THEN ParseDate(texts[i]) ELSE NA]
             ELSE [i \in 1..Len(texts) |-> IF i \in present THEN Str(texts[i]) ELSE NA]
        ELSE IF \A i \in present : ParseNumber(texts[i]).ok
        THEN [i \in 1..Len(texts) |-> IF i \in present THEN ParseNumber(texts[i]).v ELSE NA]
        ELSE [i \in 1..Len(texts) |-> IF i \in present THEN Str(texts[i]) ELSE NA]

\* common_df.read_csv: [df, err]
read_csv(file) ==
    LET cols == [j \in 1..Len(file.header) |->
                    ReadColumn(file.header[j], [i \in 1..Len(file.lines) |-> file.lines[i][j]])]
        raw  == [idx  |-> <<>>,
                 cols |-> file.header,
                 rows |-> [i \in 1..Len(file.lines) |->
                             [k |-> <<>>, v |-> [j \in 1..Len(file.header) |-> cols[j][i]]]]]
    IN  IF Range(COMMON_FIELDS_TIMESERIES_KEYS) \subseteq Range(file.header)
        THEN [df |-> set_index(raw, COMMON_FIELDS_TIMESERIES_KEYS), err |-> ""]
        ELSE [df |-> EmptyTable, err |-> "KeyError"]

(***************************************************************************)
(* update_helpers.rename_fields.  fields is the mapping enum in            *)
(* declaration order, each member [name, common_field] with                *)
(* common_field = "" for None; already is already_transformed_fields in    *)
(* the order the set iterates.                                             *)
(***************************************************************************)
UNEXPECTED_COLUMNS_MESSAGE == "DataFrame columns do not match expected fields"

FieldNames(fields) == {fields[i].name : i \in 1..Len(fields)}

\* GetByValueMixin.get: the position of the member with that value, 0 for None.
Get(fields, value) ==
    IF \E i \in 1..Len(fields) : fields[i].name = value
    THEN CHOOSE i \in 1..Len(fields) : fields[i].name = value
    ELSE 0

\* Variant: only "field" is tested, so fields mapped to None are renamed too.
HasCommonField_any_field(fields, f) == f # 0 /\ fields[f].name # ""

\* field and field.common_field, for field = fields.get(col) at position f
HasCommonField(fields, f) ==
    f # 0 /\ fields[f].name # "" /\ fields[f].common_field # ""

RenameKeys(rename) == {rename[i].key : i \in 1..Len(rename)}

RECURSIVE RenameLoop_over_fields(_, _, _, _)
\* Variant: for field in fields, taking the fields whose column is present.
RenameLoop_over_fields(columns, fields, i, rename) ==
    IF i > Len(fields) THEN [ok |-> TRUE, rename |-> rename]
    ELSE IF fields[i].name \in Range(columns) /\ HasCommonField(fields, i)
    THEN IF fields[i].name \in RenameKeys(rename)
         THEN [ok |-> FALSE, rename |-> rename]
         ELSE RenameLoop_over_fields(columns, fields, i + 1,
                 Append(rename, [key |-> fields[i].name, to |-> fields[i].common_field]))
    ELSE RenameLoop_over_fields(columns, fields, i + 1, rename)

RECURSIVE RenameLoop(_, _, _, _)
\* for col in df.columns: ...  over the columns from position i on; rename
\* is the dict built so far as its items in insertion order.
RenameLoop(columns, fields, i, rename) ==
    IF i > Len(columns) THEN [ok |-> TRUE, rename |-> rename]
    ELSE LET col == columns[i]
             f   == Get(fields, col)
         IN  IF HasCommonField(fields, f)
             THEN IF fields[f].name \in RenameKeys(rename)
                  THEN [ok |-> FALSE, rename |-> rename]
                  ELSE RenameLoop(columns, fields, i + 1,
                          Append(rename, [key |-> fields[f].name, to |-> fields[f].common_field]))
             ELSE RenameLoop(columns, fields, i + 1, rename)

\* Variant: the already transformed fields are not subtracted.
ExtraFields_with_already(df, fields, already) == Range(df.cols) \ FieldNames(fields)

\* set(df.columns) - set(fields) - already_transformed_fields
ExtraFields(df, fields, already) ==
    (Range(df.cols) \ FieldNames(fields)) \ Range(already)

\* set(fields) - set(df.columns)
MissingFields(df, fields) == FieldNames(fields) \ Range(df.cols)

\* update_helpers.rename_fields: [df, logs, err]
rename_fields(df, fields, already) ==
    LET extra_fields   == ExtraFields(df, fields, already)
        missing_fields == MissingFields(df, fields)
        logs == IF extra_fields # {} \/ missing_fields # {}
                THEN << [event |-> UNEXPECTED_COLUMNS_MESSAGE,
                         extra_fields |-> extra_fields,
                         missing_fields |-> missing_fields] >>
                ELSE <<>>
        start  == [i \in 1..Len(already) |-> [key |-> already[i], to |-> already[i]]]
        looped == RenameLoop(df.cols, fields, 1, start)
        keys   == [i \in 1..Len(looped.rename) |-> looped.rename[i].key]
        to     == [i \in 1..Len(looped.rename) |-> looped.rename[i].to]
    IN  IF ~looped.ok
        THEN [df |-> EmptyTable, logs |-> logs, err |-> "AssertionError"]
        ELSE IF ~(Range(keys) \subseteq Range(df.cols))
        THEN [df |-> EmptyTable, logs |-> logs, err |-> "KeyError"]
        ELSE [df |-> [select_columns(df, keys) EXCEPT !.cols = to], logs |-> logs, err |-> ""]

(***************************************************************************)
(* Input tables.  Column names are distinct, fips is text, the dates of a  *)
(* table are all ISO texts or all Timestamps, and every other column holds *)
(* numbers and missing values.                                             *)
(***************************************************************************)
Fips1 == Str(<<"0", "6", "0", "4", "5">>)

Fips2 == Str(<<"4", "5", "1", "2", "3">>)

DateText(d) == <<"2", "0", "2", "0", "-", "0", "4", "-", "0", DigitChar(d)>>

V234 == Num(FALSE, <<2, 3, 4>>, 2)

VBig == Num(FALSE, <<1, 2, 3, 4, 5, 6, 7, 8, 9, 0, 1, 2, 3>>, 12)

VLong == Num(FALSE, <<3, 1, 2, 3, 4, 5, 6, 7, 8, 9, 0, 1, 2, 7>>, 0)

VSmall == Num(FALSE, <<5>>, 0 - 5)

\* Rows as [fips, date, val]: val is the value of every column but fips and date.
StrRows ==
    { [fips |-> Fips1, date |-> Str(DateText(1)), val |-> V234],
      [fips |-> Fips2, date |-> Str(DateText(2)), val |-> VBig],
      [fips |-> Fips1, date |-> Str(DateText(1)), val |-> NA],
      [fips |-> Fips2, date |-> Str(DateText(1)), val |-> VLong] }

TsRows ==
    { [fips |-> Fips1, date |-> Ts(2020, 4, 1, 0), val |-> VSmall],
      [fips |-> Fips2, date |-> Ts(2020, 4, 2, 0), val |-> VBig],
      [fips |-> Fips1, date |-> Ts(2020, 4, 1, 0), val |-> NA],
      [fips |-> Fips2, date |-> Ts(2020, 4, 2, 43200), val |-> V234] }

ColumnLists ==
    { <<"date", "fips", "cases">>,
      <<"date", "fips", "extra2", "cases", "extra1">>,
      <<"fips", "date", "index", "cases">>,
      <<"new_cases", "date", "recovered", "fips">>,
      <<"fips", "cases">> }

\* The index the caller may set before handing the table over.
IndexChoices ==
    { <<"fips", "date">>, <<"date", "fips">>, <<"date", "cases">>, <<"fips">>, <<"index">> }

MakeTable(columns, rows) ==
    [idx  |-> <<>>,
     cols |-> columns,
     rows |-> [i \in 1..Len(rows) |->
                 [k |-> <<>>,
                  v |-> [j \in 1..Len(columns) |->
                           IF columns[j] = "fips" THEN rows[i].fips
                           ELSE IF columns[j] = "date" THEN rows[i].date
                           ELSE rows[i].val]]]]

InputTables ==
    { MakeTable(c, r) : c \in ColumnLists,
                        r \in SeqsUpTo(StrRows, MaxRows) \cup SeqsUpTo(TsRows, MaxRows) }

(***************************************************************************)
(* Inputs of rename_fields: mappings, source tables and already            *)
(* transformed fields.  A source table has one row, whose cell in column   *)
(* c is the text <<c>>, so that a cell tells the column it came from.      *)
(* As in every caller, the already transformed fields are columns of the   *)
(* table (the transformers add fips right before the call).                *)
(***************************************************************************)
MaxSourceColumns == 3

F(name, common_field) == [name |-> name, common_field |-> common_field]

Mappings ==
    { << F("location", ""), F("dt", "date"), F("cases_total", "cases"),
         F("positive_tests_total", "positive_tests") >>,
      << F("dt", "date"), F("tests_total", "positive_tests"),
         F("positive_tests_total", "positive_tests") >>,
      << F("fips", "fips"), F("dt", "date"), F("cases_total", "cases") >> }

SourceNames ==
    {"location", "dt", "cases_total", "positive_tests_total", "tests_total", "foobar",
     "fips", "country"}

AlreadyChoices == { <<>>, <<"fips">>, <<"fips", "country">>, <<"country", "fips">> }

SourceColumnLists ==
    { c \in SeqsUpTo(SourceNames, MaxSourceColumns) :
        \A i, j \in 1..Len(c) : i # j => c[i] # c[j] }

SourceTable(columns) ==
    [idx  |-> <<>>,
     cols |-> columns,
     rows |-> << [k |-> <<>>, v |-> [j \in 1..Len(columns) |-> Str(<<columns[j]>>)]] >>]

(***************************************************************************)
(* The updater scripts as sequences of steps on the files under data/.     *)
(*   fetch   a network request; it may raise                               *)
(*   check   a step that depends on the configuration (credentials, the    *)
(*           files under data/misc, the names in the fetched data); it may *)
(*           raise                                                         *)
(*   write   a file (or the files of a directory) is created or            *)
(*           overwritten                                                   *)
(*   rmtree  a directory is removed with its files                         *)
(* An exception in a step propagates out of the script: no script catches  *)
(* one.                                                                    *)
(***************************************************************************)
Fetch(what) == [op |-> "fetch", arg |-> what]

Check(what) == [op |-> "check", arg |-> what]

Write(path) == [op |-> "write", arg |-> path]

Rmtree(path) == [op |-> "rmtree", arg |-> path]

\* update.py: CovidDatasetAutoUpdater.update_jhu_data
update_jhu_data ==
    << Fetch("_JHU_MASTER_API"),
       Write("cases-jhu/version.txt"),
       Fetch("jhu repo archive"),
       Write("cases-jhu/csse_covid_19_daily_reports") >>

\* update.py: CovidDatasetAutoUpdater.update_cds_data
update_cds_data ==
    << Fetch("_CDS_TIMESERIES"),
       Write("cases-cds/timeseries.csv"),
       Write("cases-cds/version.txt") >>

\* update.py: CovidDatasetAutoUpdater.update_all_data_files
update_all_data_files == update_cds_data \o update_jhu_data

\* update_nytimes_data.py: main with --fetch
update_nytimes_data ==
    << Fetch("NYTIMES_MASTER_API_URL"),
       Fetch("state_url"),
       Write("cases-nytimes/us-states.csv"),
       Fetch("county_url"),
       Write("cases-nytimes/us-counties.csv"),
       Write("cases-nytimes/version.txt"),
       Check("state_census_path"),
       Write("cases-nytimes/timeseries-common.csv") >>

\* update_test_and_trace.py: TestAndTraceSyncer.update
update_test_and_trace ==
    << Fetch("source_url"),
       Write("test-and-trace/gsheet-copy/today.csv"),
       Check("census_state_path"),
       Write("test-and-trace/state_data.csv") >>

\* update_forecast_hub.py: main with --fetch
update_forecast_hub ==
    << Check("zoltpy authenticate"),
       Fetch("latest forecast date"),
       Fetch("download_forecast"),
       Write("forecast-hub/raw.csv"),
       Write("forecast-hub/version.txt"),
       Write("forecast-hub/timeseries-common.csv") >>

\* reich_lab.py: main with --fetch
reich_lab ==
    << Check("zoltpy authenticate"),
       Fetch("download_forecast"),
       Write("forecast-hub/raw.csv"),
       Write("forecast-hub/version.txt"),
       Write("forecast-hub/timeseries-common.csv") >>

\* update_covid_care_map.py: CovidCareMapUpdater.update
update_covid_care_map ==
    << Fetch("COUNTY_DATA_URL"),
       Write("covid-care-map/healthcare_capacity_data_county.csv"),
       Fetch("STATE_DATA_URL"),
       Write("covid-care-map/healthcare_capacity_data_state.csv"),
       Write("covid-care-map/version.txt") >>

\* update_state_of_kentucky.py: UpdateStateOfKentucky.update
update_state_of_kentucky == << Fetch("source_url"), Write("states/ky.csv") >>

\* update_nha_hospitalization_county.py: main
update_nha_hospitalization_county ==
    << Fetch("source_url"),
       Check("county_fips_csv"),
       Write("states/nv/nha_hospitalization_county.csv") >>

\* update_cmdc.py: main
update_cmdc == << Fetch("cmdc client"), Write("cases-cmdc/timeseries-common.csv") >>

\* update_covid_county_data.py: main
update_covid_county_data ==
    << Fetch("covidcountydata client"),
       Check("county_fips_csv"),
       Write("cases-covid-county-data/timeseries-common.csv") >>

\* update_covid_data_scraper.py: main
update_covid_data_scraper ==
    << Check("cds_source_path"), Write("cases-cds/timeseries-common.csv") >>

\* update_usafacts.py: main (the fetch is commented out)
update_usafacts == << Check("source_path"), Write("cases-usafacts/timeseries-common.csv") >>

\* update_aws_lake.py: main with --replace_local_mirror
update_aws_lake ==
    << Fetch("list_objects"),
       Rmtree("aws-lake/mirror"),
       Fetch("download_file"),
       Write("aws-lake/mirror"),
       Write("aws-lake/timeseries") >>

\* update_texas_tsa_hospitalizations.py: main
update_texas_tsa_hospitalizations ==
    << Fetch("TSA_HOSPITALIZATIONS_URL"), Write("states/tx/tx_tsa_hospitalizations.csv") >>

\* update_texas_fips_hospitalizations.py: main
update_texas_fips_hospitalizations ==
    << Check("hospitalizations_by_tsa_csv"), Write("states/tx/tx_fips_hospitalizations.csv") >>

\* update_texas_tsa_to_fips_map.py: main
update_texas_tsa_to_fips_map ==
    << Check("county_fips_csv"), Write("states/tx/tx_tsa_region_fips_map.csv") >>

\* forecast_data/update_forecast_data.py: main
update_forecast_data ==
    << Fetch("covidcast.signal"), Write("median_home_dwell_time.csv") >>

\* The runs a process can be: a script and the steps of one of its modes.
Programs ==
    << [script |-> "update.py", steps |-> update_jhu_data],
       [script |-> "update.py", steps |-> update_cds_data],
       [script |-> "update.py", steps |-> update_all_data_files],
       [script |-> "update_nytimes_data.py", steps |-> update_nytimes_data],
       [script |-> "update_test_and_trace.py", steps |-> update_test_and_trace],
       [script |-> "update_forecast_hub.py", steps |-> update_forecast_hub],
       [script |-> "reich_lab.py", steps |-> reich_lab],
       [script |-> "update_covid_care_map.py", steps |-> update_covid_care_map],
       [script |-> "update_state_of_kentucky.py", steps |-> update_state_of_kentucky],
       [script |-> "update_nha_hospitalization_county.py",
        steps |-> update_nha_hospitalization_county],
       [script |-> "update_cmdc.py", steps |-> update_cmdc],
       [script |-> "update_covid_county_data.py", steps |-> update_covid_county_data],
       [script |-> "update_covid_data_scraper.py", steps |-> update_covid_data_scraper],
       [script |-> "update_usafacts.py", steps |-> update_usafacts],
       [script |-> "update_aws_lake.py", steps |-> update_aws_lake],
       [script |-> "update_texas_tsa_hospitalizations.py",
        steps |-> update_texas_tsa_hospitalizations],
       [script |-> "update_texas_fips_hospitalizations.py",
        steps |-> update_texas_fips_hospitalizations],
       [script |-> "update_texas_tsa_to_fips_map.py", steps |-> update_texas_tsa_to_fips_map],
       [script |-> "update_forecast_data.py", steps |-> update_forecast_data] >>

\* The paths a sequence of steps writes or removes.
WritePaths(steps) ==
    {steps[k].arg : k \in {h \in 1..Len(steps) : steps[h].op \in {"write", "rmtree"}}}

\* The paths that some script writes.
Paths == UNION {WritePaths(Programs[a].steps) : a \in 1..Len(Programs)}

\* No file has been touched yet: files maps a path to the process that wrote
\* it last, 0 for none.
Untouched == [p \in Paths |-> 0]

\* A process that runs program a, before its first step; a = 0 for no process.
Process(a) ==
    [prog   |-> a,
     pc     |-> 1,
     status |-> IF a = 0 THEN "done" ELSE "running",
     wrote  |-> {}]


(***************************************************************************)
(* Source-specific transformers.  A frame of this section is the sequence  *)
(* of its rows, each row a record by column name; the source frames hold   *)
(* every column the transformer's Fields enum names, of which the rows     *)
(* carry the ones the transformer reads.  Cell values are the values of    *)
(* the section "Cell values"; isnull is IsNA.                              *)
(***************************************************************************)
MaxSourceRows == 3

\* Variant: the values with their repetitions.
unique_with_repeats(s) == s

\* Series.unique().tolist(): the distinct values in order of first appearance.
unique(s) == SelectSeqIdx(s, {i \in 1..Len(s) : \A j \in 1..(i - 1) : s[j] # s[i]}, 1)

\* df.loc[mask, :] with the mask given as the set of positions kept.
loc(df, mask) == SelectSeqIdx(df, mask, 1)

\* str.zfill(n)
zfill(s, n) == Repeat("0", n - Len(s)) \o s

\* f"{v:0>{2 if v < 100 else 5}}": the location number as a fips text.
FipsOfLocation(v) == Str(zfill(NatText(v), IF v < 100 THEN 2 ELSE 5))

\* data/misc/fips_population.csv as load_county_fips_data returns it: the
\* fips column read as text and zero-filled to five characters.
load_county_fips_data ==
    { [fips |-> Str(zfill(<<"6", "0", "3", "7">>, 5)), state |-> Str(<<"C", "A">>),
       county |-> Str(<<"L", "o", "s">>)],
      [fips |-> Str(zfill(<<"1", "2", "0", "8", "6">>, 5)), state |-> Str(<<"F", "L">>),
       county |-> Str(<<"M", "i", "a">>)],
      [fips |-> Str(zfill(<<"3", "2", "0", "0", "3">>, 5)), state |-> Str(<<"N", "V">>),
       county |-> Str(<<"C", "l", "a", "r", "k", " ", "C", "o", "u", "n", "t", "y">>)],
      [fips |-> Str(zfill(<<"3", "2", "5", "1", "0">>, 5)), state |-> Str(<<"N", "V">>),
       county |-> Str(<<"C", "a", "r", "s", "o", "n", " ", "C", "i", "t", "y">>)] }

\* data/misc/state.txt as load_census_state returns it.
load_census_state ==
    { [fips |-> Str(<<"0", "6">>), state |-> Str(<<"C", "A">>),
       state_name |-> Str(<<"C", "a", "l">>)],
      [fips |-> Str(<<"1", "2">>), state |-> Str(<<"F", "L">>),
       state_name |-> Str(<<"F", "l", "o">>)] }

\* left.merge(right[[column]], left_on=["fips"], right_index=True, how="left")
\* for one row: the column of the reference row with that fips, missing when
\* there is none.
merged(right, fips, column) ==
    IF \E x \in right : x.fips = fips
    THEN (CHOOSE x \in right : x.fips = fips)[column]
    ELSE NA

\* The fips column, the rename to common fields and the country column.
\* update_cmdc.py:116-146, update_covid_county_data.py:115-122
renamed_with_fips(df) ==
    [i \in 1..Len(df) |->
        [fips        |-> FipsOfLocation(df[i].location),
         date        |-> df[i].dt,
         cases       |-> df[i].cases_total,
         current_icu |-> df[i].icu_beds_in_use_covid_total,
         country     |-> "USA"]]

\* Partition by region type, merge the names in, drop the counties without
\* a match and concatenate states and counties.  Returns [df, logs].
merge_region_names(df) ==
    LET state_mask == {i \in 1..Len(df) : Len(df[i].fips.s) = 2}
        states     == loc(df, state_mask)
        counties   == loc(df, (1..Len(df)) \ state_mask)
        fips_data  == load_county_fips_data
        counties_merged ==
            [i \in 1..Len(counties) |->
                [fips        |-> counties[i].fips,
                 date        |-> counties[i].date,
                 cases       |-> counties[i].cases,
                 current_icu |-> counties[i].current_icu,
                 country     |-> counties[i].country,
                 state       |-> merged(fips_data, counties[i].fips, "state"),
                 county      |-> merged(fips_data, counties[i].fips, "county"),
                 aggregate_level |-> "county"]]
        no_match_counties_mask == {i \in 1..Len(counties_merged) : IsNA(counties_merged[i].state)}
        bad_fips   == unique([i \in 1..Cardinality(no_match_counties_mask) |->
                                 loc(counties_merged, no_match_counties_mask)[i].fips])
        state_df   == load_census_state
        states_merged ==
            [i \in 1..Len(states) |->
                [fips        |-> states[i].fips,
                 date        |-> states[i].date,
                 cases       |-> states[i].cases,
                 current_icu |-> states[i].current_icu,
                 country     |-> states[i].country,
                 state       |-> merged(state_df, states[i].fips, "state"),
                 county      |-> NA,
                 aggregate_level |-> "state"]]
    IN  [df   |-> states_merged
                  \o loc(counties_merged, (1..Len(counties_merged)) \ no_match_counties_mask),
         logs |-> IF Cardinality(no_match_counties_mask) > 0
                  THEN << [event    |-> "Some counties did not match by fips",
                           bad_fips |-> bad_fips] >>
                  ELSE <<>>]

\* Variant: the rows without a match are reported but stay in the frame.
drop_bad_rows_kept(df) ==
    LET bad_rows == {i \in 1..Len(df) :
                        IsNA(df[i].fips) \/ IsNA(df[i].date) \/ IsNA(df[i].state)}
    IN  [df   |-> df,
         logs |-> IF bad_rows # {}
                  THEN << [event    |-> "Dropping rows with null in important columns",
                           bad_rows |-> loc(df, bad_rows)] >>
                  ELSE <<>>]

\* The rows with a null fips, date or state are logged and dropped.
drop_bad_rows(df) ==
    LET bad_rows == {i \in 1..Len(df) :
                        IsNA(df[i].fips) \/ IsNA(df[i].date) \/ IsNA(df[i].state)}
    IN  [df   |-> IF bad_rows # {} THEN loc(df, (1..Len(df)) \ bad_rows) ELSE df,
         logs |-> IF bad_rows # {}
                  THEN << [event    |-> "Dropping rows with null in important columns",
                           bad_rows |-> loc(df, bad_rows)] >>
                  ELSE <<>>]

\* Variant: set_index without verify_integrity, duplicated keys pass.
set_index_verify_integrity_off(df) == [df |-> df, err |-> ""]

\* df.set_index(COMMON_FIELDS_TIMESERIES_KEYS, verify_integrity=True): raises
\* ValueError when two rows have the same (fips, date).
set_index_verify_integrity(df) ==
    IF \E i, j \in 1..Len(df) : i < j /\ df[i].fips = df[j].fips /\ df[i].date = df[j].date
    THEN [df |-> <<>>, err |-> "ValueError"]
    ELSE [df |-> df, err |-> ""]

\* CmdcTransformer.transform on the frame the client fetched.
CmdcTransformer_transform(fetched) ==
    LET m  == merge_region_names(renamed_with_fips(fetched))
        b  == drop_bad_rows(m.df)
        fl_data_rows == {i \in 1..Len(b.df) :
                            Len(b.df[i].fips.s) >= 2 /\ SubSeq(b.df[i].fips.s, 1, 2) = <<"1", "2">>}
        fl_logs == IF fl_data_rows # {}
                   THEN << [event |-> "Dropping rows for FL",
                            dropped_rows |-> loc(b.df, fl_data_rows)] >>
                   ELSE <<>>
        df == IF fl_data_rows # {} THEN loc(b.df, (1..Len(b.df)) \ fl_data_rows) ELSE b.df
        r  == set_index_verify_integrity(df)
    IN  [df |-> r.df, logs |-> m.logs \o b.logs \o fl_logs, err |-> r.err]

\* CovidCountyDataTransformer.transform on the frame the client fetched.  The
\* four bed columns it drops from the state rows are not among the columns
\* the rows carry.
CovidCountyDataTransformer_transform(fetched) ==
    LET m  == merge_region_names(renamed_with_fips(fetched))
        b  == drop_bad_rows(m.df)
        is_incorrect_fl_icu_dates ==
            {i \in 1..Len(b.df) : /\ ~IsNA(b.df[i].date)
                                  /\ ~ValLess(b.df[i].date, Ts(2020, 5, 14, 0))
                                  /\ ~ValLess(Ts(2020, 5, 20, 0), b.df[i].date)}
        is_fl_state == {i \in 1..Len(b.df) : b.df[i].fips = Str(<<"1", "2">>)}
        df == [i \in 1..Len(b.df) |->
                 IF i \in is_fl_state \cap is_incorrect_fl_icu_dates
                 THEN [b.df[i] EXCEPT !.current_icu = NA]
                 ELSE b.df[i]]
        r  == set_index_verify_integrity(df)
    IN  [df |-> r.df, logs |-> m.logs \o b.logs, err |-> r.err]

\* The frames the client may fetch: rows of a state, of a county of the
\* FIPS data (of California on two dates and without a date, of Florida), of
\* a state and of a county that are not in the data, with measures that tell
\* the rows apart.
FetchedFrames ==
    LET may1  == Ts(2020, 5, 1, 0)
        may15 == Ts(2020, 5, 15, 0)
        kinds == { <<0, may1>>, <<6, may1>>, <<6037, may1>>, <<6037, may15>>, <<6037, NA>>,
                   <<12086, may1>>, <<99999, may1>>, <<99999, may15>> }
    IN  { [i \in 1..Len(s) |->
              [location |-> s[i][1], dt |-> s[i][2],
               cases_total |-> Num(FALSE, <<i>>, 0),
               icu_beds_in_use_covid_total |-> Num(FALSE, <<i>>, 0)]] :
          s \in SeqsUpTo(kinds, MaxSourceRows) }

(***************************************************************************)
(* update_covid_data_scraper.py.  The source rows carry the columns city,  *)
(* county, state, country, date, cases and tested; cases and tested are    *)
(* plain integers.                                                         *)
(***************************************************************************)
NewYorkCity == <<"N", "e", "w", " ", "Y", "o", "r", "k", " ", "C", "i", "t", "y">>

UnitedStatesText == <<"U", "n", "i", "t", "e", "d", " ", "S", "t", "a", "t", "e", "s">>

RECURSIVE str_strip(_)
\* col.str.strip() for one cell of an object column: the blanks at both ends
\* of a text go, a missing value stays.
str_strip(v) ==
    IF v.k # "str" \/ Len(v.s) = 0 THEN v
    ELSE IF v.s[1] = " " THEN str_strip(Str(Tail(v.s)))
    ELSE IF v.s[Len(v.s)] = " " THEN str_strip(Str(SubSeq(v.s, 1, Len(v.s) - 1)))
    ELSE v

strip_whitespace(df) ==
    [i \in 1..Len(df) |->
        [df[i] EXCEPT !.city = str_strip(@), !.county = str_strip(@),
                      !.state = str_strip(@), !.country = str_strip(@)]]

\* Variant: the city is copied as it is.
fill_missing_county_with_city_as_is(row) ==
    IF IsNA(row.county) /\ ~IsNA(row.city) THEN row.city ELSE row.county

fill_missing_county_with_city(row) ==
    IF IsNA(row.county) /\ ~IsNA(row.city)
    THEN IF row.city = Str(NewYorkCity)
         THEN Str(<<"N", "e", "w", " ", "Y", "o", "r", "k">>)
         ELSE row.city
    ELSE row.county

remove_duplicate_city_data(data) ==
    LET select_pre_march_23 ==
            {i \in 1..Len(data) : ValLess(data[i].date, Ts(2020, 3, 23, 0))}
        patched ==
            [i \in 1..Len(data) |->
                IF i \in select_pre_march_23
                THEN [data[i] EXCEPT !.county = fill_missing_county_with_city(data[i])]
                ELSE data[i]]
    IN  loc(patched, select_pre_march_23
                     \cup {i \in 1..Len(data) : i \notin select_pre_march_23
                                                 /\ IsNA(data[i].city)})

\* Variant: index.duplicated(keep="first"), the first row of each key is not
\* marked.
duplicated_keep_first(data) ==
    {i \in 1..Len(data) :
        \E j \in 1..(i - 1) : data[j].date = data[i].date /\ data[j].fips = data[i].fips}

\* data.index.duplicated(keep=False) for the index ["date", "fips"]: every row
\* whose key occurs more than once.
duplicated(data) ==
    {i \in 1..Len(data) :
        \E j \in 1..Len(data) :
            j # i /\ data[j].date = data[i].date /\ data[j].fips = data[i].fips}

\* US_STATE_ABBREV[x] if x in US_STATE_ABBREV else x
StateAbbrev(x) ==
    IF \E s \in load_census_state : s.state_name = x
    THEN (CHOOSE s \in load_census_state : s.state_name = x).state
    ELSE x

\* data.merge(fips_data[["fips"]], left_on=["state", "county"], how="left")
FipsOfCounty(state, county) ==
    IF \E x \in load_county_fips_data : x.state = state /\ x.county = county
    THEN (CHOOSE x \in load_county_fips_data : x.state = state /\ x.county = county).fips
    ELSE NA

\* data[Fields.AGGREGATE_LEVEL] of one row: "county" with a county and a
\* state, "state" with a state and neither county nor city, "country" with
\* a country only, else None.
aggregate_level(r) ==
    IF IsNA(r.county) /\ IsNA(r.city) /\ IsNA(r.state) /\ ~IsNA(r.country)
    THEN "country"
    ELSE IF IsNA(r.county) /\ IsNA(r.city) /\ ~IsNA(r.state) THEN "state"
    ELSE IF ~IsNA(r.county) /\ ~IsNA(r.state) THEN "county"
    ELSE "None"

\* The rows of the United States with the country and state recoded, the
\* aggregate level and the fips of (state, county) merged in.
\* CovidDataScraperTransformer.transform, lines 107-142
keep_united_states(data) ==
    LET us == loc(data, {i \in 1..Len(data) : data[i].country = Str(UnitedStatesText)})
    IN  [i \in 1..Len(us) |->
            LET r == us[i]
            IN  [city    |-> r.city,
                 county  |-> r.county,
                 state   |-> StateAbbrev(r.state),
                 country |-> "USA",
                 date    |-> r.date,
                 cases   |-> r.cases,
                 tested  |-> r.tested,
                 aggregate_level |-> aggregate_level(r),
                 fips    |-> FipsOfCounty(StateAbbrev(r.state), r.county)]]

\* The rows without a fips are logged and removed.  Returns [df, logs].
remove_rows_without_fips(data) ==
    LET no_fips == {i \in 1..Len(data) : IsNA(data[i].fips)}
        rows    == loc(data, no_fips)
    IN  IF no_fips = {} THEN [df |-> data, logs |-> <<>>]
        ELSE [df   |-> loc(data, (1..Len(data)) \ no_fips),
              logs |-> << [event   |-> "Removing rows without fips id",
                           no_fips |-> [i \in 1..Len(rows) |->
                                          [state |-> rows[i].state,
                                           county |-> rows[i].county]]] >>]

\* The rows of a (date, fips) that occurs more than once are logged and
\* removed.  Returns [df, logs].
remove_duplicates(data) ==
    LET mask == duplicated(data)
    IN  IF mask = {} THEN [df |-> data, logs |-> <<>>]
        ELSE [df   |-> loc(data, (1..Len(data)) \ mask),
              logs |-> << [event      |-> "Removing duplicates",
                           duplicated |-> [i \in 1..Len(data) |-> i \in mask]] >>]

\* CovidDataScraperTransformer.transform on the frame read from
\* cds_source_path.  The last step adds the negative tests and renames the
\* columns as Fields says: city to cases, cases to positive_tests.
CovidDataScraperTransformer_transform(read) ==
    LET a == remove_rows_without_fips(
                 keep_united_states(remove_duplicate_city_data(strip_whitespace(read))))
        b == remove_duplicates(a.df)
    IN  [df   |-> [i \in 1..Len(b.df) |->
                      LET r == b.df[i]
                      IN  [fips           |-> r.fips,
                           date           |-> r.date,
                           country        |-> r.country,
                           state          |-> r.state,
                           county         |-> r.county,
                           cases          |-> r.city,
                           positive_tests |-> r.cases,
                           negative_tests |-> r.tested - r.cases]],
         logs |-> a.logs \o b.logs,
         err  |-> ""]

\* The kinds of row of data/cases-cds/timeseries.csv: [city, county, state,
\* country, date].
ScraperRowKinds ==
    LET Los   == Str(<<"L", "o", "s">>)
        Smi   == Str(<<"S", "m", "i">>)
        California   == Str(<<"C", "a", "l">>)
        UnitedStates == Str(UnitedStatesText)
    IN  { <<NA, Los, California, UnitedStates, Ts(2020, 3, 22, 0)>>,
          <<NA, Los, California, UnitedStates, Ts(2020, 3, 23, 0)>>,
          <<NA, Str(<<" ", "L", "o", "s">>), California, UnitedStates, Ts(2020, 3, 23, 0)>>,
          <<Los, NA, California, UnitedStates, Ts(2020, 3, 22, 0)>>,
          <<Str(NewYorkCity), NA, California, UnitedStates, Ts(2020, 3, 22, 0)>>,
          <<Smi, NA, California, UnitedStates, Ts(2020, 3, 23, 0)>>,
          <<Smi, Los, California, UnitedStates, Ts(2020, 3, 22, 0)>>,
          <<Smi, Los, California, UnitedStates, Ts(2020, 3, 24, 0)>>,
          <<NA, NA, California, UnitedStates, Ts(2020, 3, 24, 0)>>,
          <<NA, Los, California, Str(<<"C", "a", "n">>), Ts(2020, 3, 22, 0)>>,
          <<NA, Los, California, UnitedStates, NA>> }

ScraperFrames ==
    { [i \in 1..Len(s) |->
          [city |-> s[i][1], county |-> s[i][2], state |-> s[i][3], country |-> s[i][4],
           date |-> s[i][5], cases |-> i, tested |-> 10 + i]] :
      s \in SeqsUpTo(ScraperRowKinds, MaxSourceRows) }

(***************************************************************************)
(* update_texas_tsa_hospitalizations.py.  A sheet is [columns, rows]: the  *)
(* headers of the date columns as texts, and for each row the TSA ID, the  *)
(* TSA AREA and one value per date column (NA for an empty cell).          *)
(***************************************************************************)
MaxSheetColumns == 2

MaxSheetRows == 2

RECURSIVE lstrip(_, _)
\* str.lstrip(chars): leading characters that are in chars are removed.
lstrip(s, chars) ==
    IF Len(s) > 0 /\ s[1] \in chars THEN lstrip(Tail(s), chars) ELSE s

RECURSIVE rstrip(_, _)
\* str.rstrip(chars)
rstrip(s, chars) ==
    IF Len(s) > 0 /\ s[Len(s)] \in chars THEN rstrip(SubSeq(s, 1, Len(s) - 1), chars) ELSE s

\* dateutil.parser.parse(x).date().isoformat() for the two forms of date the
\* headers of the model have, YYYY-MM-DD and MM/DD/YYYY.
dateutil_isoformat(x) ==
    IF Len(x) = 10 /\ x[3] = "/" /\ x[6] = "/"
    THEN FormatDate(Ts(NatOf(SubSeq(x, 7, 10)), NatOf(SubSeq(x, 1, 2)), NatOf(SubSeq(x, 4, 5)), 0))
    ELSE FormatDate(ParseDate(x))

RECURSIVE stack(_, _, _)
\* data.set_index(index).stack().reset_index(): one row per cell that holds a
\* value, row by row and within a row column by column.
stack(data, i, j) ==
    IF i > Len(data.rows) THEN <<>>
    ELSE IF j > Len(data.columns) THEN stack(data, i + 1, 1)
    ELSE (IF IsNA(data.rows[i].values[j]) THEN <<>>
          ELSE << [id    |-> data.rows[i].id,
                   area  |-> data.rows[i].area,
                   date  |-> data.columns[j],
                   value |-> data.rows[i].values[j]] >>)
         \o stack(data, i, j + 1)

\* TexasTraumaServiceAreaHospitalizationsUpdater.parse_data(data, field); the
\* column the values go to is called value here, whatever field is.
parse_data(data) ==
    LET renamed ==
            [data EXCEPT !.columns =
                [j \in 1..Len(data.columns) |->
                    IF data.columns[j] = <<"4", "4", "0", "5", "1">>
                    THEN <<"2", "0", "2", "0", "-", "0", "8", "-", "0", "8">>
                    ELSE data.columns[j]]]
        stacked == stack(renamed, 1, 1)
        stripped ==
            [i \in 1..Len(stacked) |->
                [stacked[i] EXCEPT !.date =
                    rstrip(rstrip(lstrip(@, {"H", "o", "s", "p", "i", "t", "a", "l", "z",
                                             "n", " "}),
                                  {".", "x"}),
                           {".", "y"})]]
        \* index.duplicated(keep="last"): every row but the last of each key
        duplicated_keep_last ==
            {i \in 1..Len(stripped) :
                \E j \in (i + 1)..Len(stripped) :
                    /\ stripped[j].id = stripped[i].id
                    /\ stripped[j].area = stripped[i].area
                    /\ stripped[j].date = stripped[i].date}
        kept   == loc(stripped, (1..Len(stripped)) \ duplicated_keep_last)
        parsed == [i \in 1..Len(kept) |-> [kept[i] EXCEPT !.date = dateutil_isoformat(@)]]
        notnull == loc(parsed, {i \in 1..Len(parsed) : ~IsNA(parsed[i].id)})
    IN  [i \in 1..Len(notnull) |->
            [notnull[i] EXCEPT !.id = Str(rstrip(@.s, {"."}))]]

\* The sheets: up to MaxSheetColumns distinct headers, up to MaxSheetRows
\* rows of one area whose TSA ID is written with or without its dot or is
\* missing (the state total); the cell of row i and column j holds 10 i + j,
\* or the last cell of the first row is empty.
SheetHeaders ==
    { <<"2", "0", "2", "0", "-", "0", "4", "-", "1", "2", ".", "x">>,
      <<"2", "0", "2", "0", "-", "0", "4", "-", "1", "2", ".", "y">>,
      <<"2", "0", "2", "0", "-", "0", "4", "-", "1", "3">>,
      <<"H", "o", "s", "p", "i", "t", "a", "l", "i", "z", "a", "t", "i", "o", "n", "s", " ",
        "2", "0", "2", "0", "-", "0", "4", "-", "1", "3">>,
      <<"0", "4", "/", "1", "2", "/", "2", "0", "2", "0">>,
      <<"4", "4", "0", "5", "1">> }

Sheets ==
    { [columns |-> c,
       rows    |-> [i \in 1..Len(ids) |->
                      [id     |-> ids[i],
                       area   |-> Str(<<"A", "m", "a">>),
                       values |-> [j \in 1..Len(c) |->
                                     IF empty /\ i = 1 /\ j = Len(c) THEN NA
                                     ELSE Num(FALSE, <<i, j>>, 1)]]]] :
      c \in {s \in SeqsUpTo(SheetHeaders, MaxSheetColumns) :
                Len(s) >= 1 /\ \A a, b \in 1..Len(s) : a # b => s[a] # s[b]},
      ids \in SeqsUpTo({Str(<<"A", ".">>), Str(<<"A">>), NA}, MaxSheetRows) \ {<<>>},
      empty \in BOOLEAN }

(***************************************************************************)
(* update_nytimes_data.py: the removal of backfilled cases.  The rows      *)
(* carry fips, date and cases; cases is a plain integer.  A count of the   *)
(* adjustments is [ok, v]: the integer v, or not ok for the float nan or   *)
(* inf that int() does not convert.                                        *)
(***************************************************************************)
\* round() of p / q, q # 0: to the nearest integer, a half to the even one.
RoundHalfEven(p, q) ==
    LET a == IF q < 0 THEN 0 - p ELSE p
        b == IF q < 0 THEN 0 - q ELSE q
        f == IF a >= 0 THEN a \div b ELSE 0 - (((0 - a) + b - 1) \div b)
        r == a - f * b
    IN  IF 2 * r < b THEN f
        ELSE IF 2 * r > b THEN f + 1
        ELSE IF f % 2 = 0 THEN f ELSE f + 1

RECURSIVE diff_sum(_, _, _)
\* cases.diff() summed over the rows of date, from row i on: the difference
\* of each row to the row before it in the sorted frame, whatever county
\* that row is of; the first row has no difference and is skipped.
diff_sum(cases, date, i) ==
    IF i > Len(cases) THEN 0
    ELSE (IF i > 1 /\ cases[i].date = date THEN cases[i].cases - cases[i - 1].cases ELSE 0)
         + diff_sum(cases, date, i + 1)

\* _calculate_county_adjustments: for each county of the state with a row on
\* date, the share of backfilled_cases in proportion to its difference.  The
\* count is nan (0 / 0, or the first row, which has no difference) or inf
\* (x / 0) where it is not a number.
calculate_county_adjustments(data, date, backfilled_cases, state_fips) ==
    LET is_state(i) == Len(data[i].fips.s) >= 5 /\ SubSeq(data[i].fips.s, 1, 2) = state_fips
        is_not_unknown(i) == data[i].fips # Str(state_fips \o <<"9", "9", "9">>)
        rows   == loc(data, {i \in 1..Len(data) : is_state(i) /\ is_not_unknown(i)})
        less   == [i \in 1..Len(rows) |-> [j \in 1..Len(rows) |->
                     KeyLess(<<rows[i].fips, rows[i].date>>, <<rows[j].fips, rows[j].date>>)]]
        cases  == StableSort(rows, less)
        on_date == {i \in 1..Len(cases) : cases[i].date = date}
        total  == diff_sum(cases, date, 1)
    IN  [i \in 1..Cardinality(on_date) |->
            LET k == loc([x \in 1..Len(cases) |-> x], on_date)[i]
            IN  [fips  |-> cases[k].fips,
                 count |-> IF k = 1 \/ total = 0 THEN [ok |-> FALSE, v |-> 0]
                           ELSE [ok |-> TRUE,
                                 v  |-> RoundHalfEven((cases[k].cases - cases[k - 1].cases)
                                                          * backfilled_cases, total)]]]

RECURSIVE remove_backfilled_cases(_, _)
\* remove_backfilled_cases(data, backfilled_cases): record by record, the
\* rows of each adjusted county dated on or after the date lose the count;
\* int(count) raises on nan and inf.  Returns [df, err].
remove_backfilled_cases(data, backfilled_cases) ==
    IF backfilled_cases = <<>> THEN [df |-> data, err |-> ""]
    ELSE LET state_fips == backfilled_cases[1][1]
             date  == backfilled_cases[1][2]
             adjustments == calculate_county_adjustments(data, date, backfilled_cases[1][3],
                                                         state_fips)
             count(fips) == (CHOOSE a \in Range(adjustments) : a.fips = fips).count
             adjusted ==
                 [i \in 1..Len(data) |->
                     IF /\ ~ValLess(data[i].date, date)
                        /\ \E a \in Range(adjustments) : a.fips = data[i].fips
                     THEN [data[i] EXCEPT !.cases = @ - count(data[i].fips).v]
                     ELSE data[i]]
         IN  IF \E a \in Range(adjustments) : ~a.count.ok
             THEN [df |-> <<>>, err |-> "ValueError"]
             ELSE remove_backfilled_cases(adjusted, Tail(backfilled_cases))

\* The frames: two counties of state 09, its unknown county and a county of
\* another state.  Each county has all three days, the last two, the first
\* two or none, and one of three series of totals; the backfill is of July
\* 24, alone or followed by one of July 25.
BackfillInputs ==
    LET day(d)   == Ts(2020, 7, d, 0)
        fips(t)  == Str(<<"0", "9", "0", "0", t>>)
        days     == {<<23, 24, 25>>, <<24, 25>>, <<23, 24>>, <<>>}
        series   == {<<100, 130, 150>>, <<100, 100, 120>>, <<200, 210, 230>>}
        county(f, ds, s) == [i \in 1..Len(ds) |->
                               [fips |-> f, date |-> day(ds[i]), cases |-> s[ds[i] - 22]]]
        others   == { <<>>,
                      county(Str(<<"0", "9", "9", "9", "9">>), <<23, 24, 25>>, <<5, 9, 9>>),
                      county(Str(<<"3", "6", "0", "6", "1">>), <<23, 24, 25>>, <<700, 800, 900>>) }
    IN  { [data |-> o \o county(fips("3"), d3, s3) \o county(fips("1"), d1, s1),
           backfilled_cases |-> b] :
          o \in others, d1 \in days, s1 \in series, d3 \in days, s3 \in series,
          b \in { << <<<<"0", "9">>, day(24), 44>> >>,
                  << <<<<"0", "9">>, day(24), 3>> >>,
                  << <<<<"0", "9">>, day(24), 44>>, <<<<"0", "9">>, day(25), 10>> >> } }

(***************************************************************************)
(* update_nha_hospitalization_county.py: CsvCopy.  A row of the sheet is   *)
(* what csv.DictReader yields for it: the text of its date, county_name    *)
(* and vents fields.                                                       *)
(***************************************************************************)
COUNTY_SUFFIX == <<" ", "C", "o", "u", "n", "t", "y">>

\* load_county_fips_data(...).loc[state == "NV"].set_index([county]).loc[:, fips].to_dict()
county_to_fips ==
    {x \in load_county_fips_data : x.state = Str(<<"N", "V">>)}

\* Variant: the name is looked up as given only.
county_name_of_as_given(raw_county_name) ==
    IF \E x \in county_to_fips : x.county = Str(raw_county_name)
    THEN Str(raw_county_name)
    ELSE NA

\* The name the county has in county_to_fips: the raw name, else the raw
\* name with COUNTY_SUFFIX, else none.
county_name_of(raw_county_name) ==
    IF \E x \in county_to_fips : x.county = Str(raw_county_name)
    THEN Str(raw_county_name)
    ELSE IF \E x \in county_to_fips : x.county = Str(raw_county_name \o COUNTY_SUFFIX)
    THEN Str(raw_county_name \o COUNTY_SUFFIX)
    ELSE NA

\* re.fullmatch(r"(\d+)/(\d+)", raw_date): the length of the first group, 0
\* when there is no match.
date_match(raw_date) ==
    LET n1 == SpanDigits(raw_date, 1)
    IN  IF /\ n1 > 0 /\ n1 < Len(raw_date) /\ raw_date[n1 + 1] = "/"
           /\ n1 + 1 < Len(raw_date)
           /\ n1 + 1 + SpanDigits(raw_date, n1 + 2) = Len(raw_date)
        THEN n1 ELSE 0

\* One pass of the loop of _yield_rows over a row: [df, logs, err] with the
\* rows yielded (none or one), the events logged and the error raised.  g is
\* the match of the date, name the county's name in county_to_fips, is_float
\* whether float(value) returns.  dateutil's parse of month/day takes the
\* year of the day of the run.
yield_row(row, year, g, name, is_float) ==
    IF row.date = <<>>
    THEN [df |-> <<>>, logs |-> <<Event("Skipping row without date")>>, err |-> ""]
    ELSE IF g = 0
    THEN [df |-> <<>>, logs |-> <<>>, err |-> "AttributeError"]
    ELSE IF NatOf(SubSeq(row.date, 1, g)) \notin 4..12
    THEN [df |-> <<>>, logs |-> <<Event("Unexpected month. Is it already January?!")>>,
          err |-> ""]
    ELSE IF IsNA(name)
    THEN [df |-> <<>>, logs |-> <<Event("Imported county name not found in FIPS data")>>,
          err |-> ""]
    ELSE [df   |-> <<[date   |-> Str(FormatDate(Ts(year, NatOf(SubSeq(row.date, 1, g)),
                                       NatOf(SubSeq(row.date, g + 2, Len(row.date))), 0))),
                      vents  |-> IF is_float THEN Str(row.vents) ELSE NA,
                      county |-> name,
                      fips   |-> (CHOOSE x \in county_to_fips : x.county = name).fips]>>,
          logs |-> IF is_float THEN <<>> ELSE <<Event("Dropping value not a float")>>,
          err  |-> ""]

\* The rows yielded from a row on: what the row gives, r, followed by what
\* the rows after it give, unless the row raised.
yield_from(r, rest) ==
    IF r.err # "" THEN r
    ELSE [df |-> r.df \o rest.df, logs |-> r.logs \o rest.logs, err |-> rest.err]

RECURSIVE yield_rows(_, _, _)
\* _yield_rows: the rows of the sheet from row i on, in the order of the
\* sheet, up to the first error.
yield_rows(rows, year, i) ==
    IF i > Len(rows) THEN [df |-> <<>>, logs |-> <<>>, err |-> ""]
    ELSE yield_from(yield_row(rows[i], year, date_match(rows[i].date),
                              county_name_of(rows[i].county_name),
                              ParseNumber(rows[i].vents).ok),
                    yield_rows(rows, year, i + 1))

\* CsvCopy.transform: the frame of the rows yielded; an error raised while
\* the rows are read leaves no frame.
CsvCopy_transform(sheet) ==
    LET r == yield_rows(sheet.rows, sheet.year, 1)
    IN  [df   |-> IF r.err = "" THEN r.df ELSE <<>>,
         logs |-> <<Event("Fetching URL")>> \o r.logs,
         err  |-> r.err]

\* The sheets: rows of Clark with a number and a date that is empty, of
\* April, of March or in ISO form, and rows of April with a county named as
\* in the FIPS data, without the suffix or as a county of another state and
\* a value that is a number or not.  The run is in 2020 or in 2021.
NhaSheets ==
    LET dates  == { <<>>, <<"0", "4", "/", "0", "1">>, <<"0", "3", "/", "1", "5">>,
                    <<"2", "0", "2", "0", "-", "0", "4", "-", "0", "2">> }
        names  == { <<"C", "a", "r", "s", "o", "n", " ", "C", "i", "t", "y">>,
                    <<"C", "l", "a", "r", "k">>, <<"L", "o", "s">> }
        values == { <<"2", "0", "0">>, <<"#", "R", "E", "F", "!">> }
        april  == <<"0", "4", "/", "0", "1">>
        kinds  == { [date |-> d, county_name |-> <<"C", "l", "a", "r", "k">>,
                     vents |-> <<"2", "0", "0">>] : d \in dates }
                  \cup { [date |-> april, county_name |-> n, vents |-> v] :
                         n \in names, v \in values }
    IN  { [rows |-> rs, year |-> y] : rs \in SeqsUpTo(kinds, MaxSheetRows), y \in {2020, 2021} }

(***************************************************************************)
(* update_aws_lake.py: AwsDataLakeCopier.replace_local_mirror.  A key of   *)
(* the bucket is the sequence of its segments between "/"; the data type   *)
(* and the file name are sequences of characters.                          *)
(***************************************************************************)
MetadataJson == <<"m", "e", "t", "a", "d", "a", "t", "a", ".", "j", "s", "o", "n">>

\* Variant: the metadata file is grouped like a data file.
group_covidcast_files_by_source_all(s3_keys) ==
    LET types == unique([i \in 1..Len(s3_keys) |-> s3_keys[i][4]])
    IN  [j \in 1..Len(types) |->
            [data_source |-> types[j],
             keys |-> loc(s3_keys, {i \in 1..Len(s3_keys) : s3_keys[i][4] = types[j]})]]

\* _group_covidcast_files_by_source: the keys by path.split("/")[3], in the
\* order in which the data types first appear, without metadata.json.
group_covidcast_files_by_source(s3_keys) ==
    LET kept  == loc(s3_keys, {i \in 1..Len(s3_keys) : s3_keys[i][4] # MetadataJson})
        types == unique([i \in 1..Len(kept) |-> kept[i][4]])
    IN  [j \in 1..Len(types) |->
            [data_source |-> types[j],
             keys |-> loc(kept, {i \in 1..Len(kept) : kept[i][4] = types[j]})]]

RECURSIVE to_cache(_)
\* The loop of replace_local_mirror over files_by_source.items(): the keys of
\* every source that does not start with "jhu", each with the directory it
\* is downloaded to.
to_cache(files_by_source) ==
    IF files_by_source = <<>> THEN <<>>
    ELSE LET data_source == Head(files_by_source).data_source
             keys        == Head(files_by_source).keys
         IN  (IF Len(data_source) >= 3 /\ SubSeq(data_source, 1, 3) = <<"j", "h", "u">>
              THEN <<>>
              ELSE [i \in 1..Len(keys) |-> [source_dir |-> data_source, key |-> keys[i]]])
             \o to_cache(Tail(files_by_source))

\* The bucket and the mirror before the run: any selection of two ght files,
\* an fb file, a jhu-csse file, the metadata file and the key of the prefix
\* itself, and a mirror that is empty or holds a file of an earlier run.
MirrorRuns ==
    LET data(t, f) == <<"covidcast", "json", "data", t, f>>
        ght  == <<"g", "h", "t">>
        fb   == <<"f", "b">>
        jhu  == <<"j", "h", "u", "-", "c", "s", "s", "e">>
        p0   == <<"p", "0">>
        p1   == <<"p", "1">>
        all  == << data(ght, p0), data(fb, p0), data(jhu, p0),
                   <<"covidcast", "json", "metadata", MetadataJson>>,
                   data(ght, p1), <<"covidcast", "json", "">> >>
    IN  { [keys |-> loc(all, S), mirror |-> m] :
          S \in SUBSET (1..Len(all)), m \in {{}, {<<ght, <<"o", "l", "d">>>>}} }

(***************************************************************************)
(* Arguments of CommonFields.get: every value and every member name of the *)
(* enum, and names that differ from a value in case or by a blank.         *)
(***************************************************************************)
LookupValues ==
    Range(CommonFields) \cup Range(CommonFieldsNames)
    \cup {"", "Fips", "fips ", " fips", "Cases", "foobar", "cases_total", "index"}

(***************************************************************************)
(* The state machine.                                                      *)
(*   pc          what has run: "start" (a caller holds a table),           *)
(*               "fixed", "written", "read", or "source" (a transformer    *)
(*               holds a source table) and "renamed"; "common" after       *)
(*               only_common_columns; "lookup" and "looked" around a       *)
(*               CommonFields.get call                                     *)
(*   df_original the caller's table                                        *)
(*   df          the table handed to the operation: the caller's table     *)
(*               itself (df = df_original) or a re-indexed copy of it      *)
(*   ret         the table the last operation returned                     *)
(*   logs        the log events of the last operation                      *)
(*   err         the exception the last operation raised, "" for none      *)
(*   csv         the file at path                                          *)
(*   fields, already_transformed_fields   the arguments of rename_fields   *)
(*   value       the argument of CommonFields.get                          *)
(*   member      what CommonFields.get returned (0 for None)               *)
(*   files       for each output path the script process that wrote it     *)
(*               last, 0 when no process has                               *)
(*   procs       the script processes: program, next step, status          *)
(*               ("running", "done", "failed" when an exception            *)
(*               propagated) and the paths written so far                  *)
(*   source      the rows a source-specific transformer was given          *)
(*   result      the rows it returned                                      *)
(***************************************************************************)
VARIABLES pc, df_original, df, ret, logs, err, csv, fields, already_transformed_fields,
          value, member, files, procs, source, result

tableVars == <<pc, df_original, df, ret, logs, err, csv, fields, already_transformed_fields,
               value, member>>

scriptVars == <<files, procs>>


vars == <<tableVars, scriptVars, source, result>>

Init ==
    /\ ret = EmptyTable
    /\ logs = <<>>
    /\ err = ""
    /\ csv = NoFile
    /\ member = 0
    /\ files = Untouched
    /\ procs = <<>>
    /\ source = <<>>
    /\ result = <<>>
    /\ \/ /\ pc = "start"
          /\ df_original \in InputTables
          /\ df = df_original
          /\ fields = <<>>
          /\ already_transformed_fields = <<>>
          /\ value = ""
       \/ /\ pc = "source"
          /\ fields \in Mappings
          /\ already_transformed_fields \in AlreadyChoices
          /\ \E c \in SourceColumnLists :
                /\ Range(already_transformed_fields) \subseteq Range(c)
                /\ df_original = SourceTable(c)
          /\ df = df_original
          /\ value = ""
       \/ /\ pc = "lookup"
          /\ value \in LookupValues
          /\ df_original = EmptyTable
          /\ df = EmptyTable
          /\ fields = <<>>
          /\ already_transformed_fields = <<>>

\* The caller's df.set_index(keys) before the call.
SetIndex(keys) ==
    /\ pc = "start"
    /\ df.idx = <<>>
    /\ Range(keys) \subseteq Range(df.cols)
    /\ df' = set_index(df, keys)
    /\ UNCHANGED <<pc, df_original, ret, logs, err, csv, fields, already_transformed_fields, value, member>>
    /\ UNCHANGED <<scriptVars, source, result>>

\* ret = fix_df_index(df, log)
FixDfIndex ==
    /\ pc = "start"
    /\ LET r == fix_df_index(df)
       IN  /\ ret' = r.df
           /\ logs' = r.logs
           /\ err' = r.err
           /\ df' = r.arg
           /\ df_original' = IF df = df_original THEN r.arg ELSE df_original
    /\ pc' = "fixed"
    /\ UNCHANGED <<csv, fields, already_transformed_fields, value, member>>
    /\ UNCHANGED <<scriptVars, source, result>>

\* fix_df_index(fix_df_index(df, log), log): the table returned is handed to
\* fix_df_index again, with the same log.
FixDfIndexAgain ==
    /\ pc = "fixed"
    /\ err = ""
    /\ LET r == fix_df_index(ret)
       IN  /\ ret' = r.df
           /\ logs' = logs \o r.logs
           /\ err' = r.err
    /\ pc' = "fixed_again"
    /\ UNCHANGED <<df_original, df, csv, fields, already_transformed_fields, value, member>>
    /\ UNCHANGED <<scriptVars, source, result>>

\* write_csv(df, path, log)
WriteCsv ==
    /\ pc = "start"
    /\ LET r == write_csv(df)
       IN  /\ csv' = r.csv
           /\ logs' = r.logs
           /\ err' = r.err
           /\ df' = r.arg
           /\ df_original' = IF df = df_original THEN r.arg ELSE df_original
    /\ pc' = "written"
    /\ UNCHANGED <<ret, fields, already_transformed_fields, value, member>>
    /\ UNCHANGED <<scriptVars, source, result>>

\* The caller goes on to its next write_csv call, as test_write_csv does:
\* a new temporary file and a new log capture, and the caller's table or a
\* copy of it with the index set to keys (<<>> for the table itself).
NextCall(keys) ==
    /\ pc = "written"
    /\ Range(keys) \subseteq Range(df_original.cols)
    /\ df' = IF keys = <<>> THEN df_original ELSE set_index(df_original, keys)
    /\ csv' = NoFile
    /\ logs' = <<>>
    /\ err' = ""
    /\ pc' = "start"
    /\ UNCHANGED <<df_original, ret, fields, already_transformed_fields, value, member>>
    /\ UNCHANGED <<scriptVars, source, result>>

\* ret = only_common_columns(df, log)
OnlyCommonColumns ==
    /\ pc = "start"
    /\ LET r == only_common_columns(df)
       IN  /\ ret' = r.df
           /\ logs' = r.logs
    /\ pc' = "common"
    /\ UNCHANGED <<df_original, df, err, csv, fields, already_transformed_fields, value, member>>
    /\ UNCHANGED <<scriptVars, source, result>>

\* member = CommonFields.get(value)
GetByValue ==
    /\ pc = "lookup"
    /\ member' = CommonFieldsGet(value)
    /\ pc' = "looked"
    /\ UNCHANGED <<df_original, df, ret, logs, err, csv, fields, already_transformed_fields,
                   value>>
    /\ UNCHANGED <<scriptVars, source, result>>

\* ret = read_csv(path)
ReadCsv ==
    /\ pc = "written"
    /\ csv.exists
    /\ LET r == read_csv(csv)
       IN  /\ ret' = r.df
           /\ err' = r.err
    /\ pc' = "read"
    /\ UNCHANGED <<df_original, df, logs, csv, fields, already_transformed_fields, value, member>>
    /\ UNCHANGED <<scriptVars, source, result>>

\* ret = rename_fields(df, fields, already_transformed_fields, log)
RenameFields ==
    /\ pc = "source"
    /\ LET r == rename_fields(df, fields, already_transformed_fields)
       IN  /\ ret' = r.df
           /\ logs' = r.logs
           /\ err' = r.err
    /\ pc' = "renamed"
    /\ UNCHANGED <<df_original, df, csv, fields, already_transformed_fields, value, member>>
    /\ UNCHANGED <<scriptVars, source, result>>

Next ==
    \/ \E keys \in IndexChoices : SetIndex(keys)
    \/ FixDfIndex
    \/ FixDfIndexAgain
    \/ WriteCsv
    \/ \E keys \in IndexChoices \cup {<<>>} : NextCall(keys)
    \/ ReadCsv
    \/ RenameFields
    \/ OnlyCommonColumns
    \/ GetByValue

Spec == Init /\ [][Next]_vars

(***************************************************************************)
(* Script runs: one or two scripts run as separate processes, their steps  *)
(* interleaved in any order.                                               *)
(***************************************************************************)
InitScripts ==
    /\ pc = "scripts"
    /\ df_original = EmptyTable
    /\ df = EmptyTable
    /\ ret = EmptyTable
    /\ logs = <<>>
    /\ err = ""
    /\ csv = NoFile
    /\ fields = <<>>
    /\ already_transformed_fields = <<>>
    /\ value = ""
    /\ member = 0
    /\ files = Untouched
    /\ source = <<>>
    /\ result = <<>>
    /\ \E a \in 1..Len(Programs), b \in 0..Len(Programs) :
          /\ b = 0 \/ a < b
          /\ procs = <<Process(a), Process(b)>>

\* The step process i is at.
StepOf(i) == Programs[procs[i].prog].steps[procs[i].pc]

\* Process i after its current step returned.
Advance(i) ==
    [procs EXCEPT ![i].pc = @ + 1,
                  ![i].status = IF procs[i].pc = Len(Programs[procs[i].prog].steps)
                                THEN "done" ELSE "running"]

\* A fetch or a check of process i returns.
StepReturns(i) ==
    /\ procs[i].status = "running"
    /\ StepOf(i).op \in {"fetch", "check"}
    /\ procs' = Advance(i)
    /\ UNCHANGED files
    /\ UNCHANGED <<tableVars, source, result>>

\* A fetch or a check of process i raises; the exception ends the script.
StepRaises(i) ==
    /\ procs[i].status = "running"
    /\ StepOf(i).op \in {"fetch", "check"}
    /\ procs' = [procs EXCEPT ![i].status = "failed"]
    /\ UNCHANGED files
    /\ UNCHANGED <<tableVars, source, result>>

\* Process i writes (or removes) the path of its current step.
StepWrites(i) ==
    /\ procs[i].status = "running"
    /\ StepOf(i).op \in {"write", "rmtree"}
    /\ files' = [files EXCEPT ![StepOf(i).arg] = i]
    /\ procs' = [Advance(i) EXCEPT ![i].wrote = @ \cup {StepOf(i).arg}]
    /\ UNCHANGED <<tableVars, source, result>>

NextScripts ==
    \E i \in 1..2 :
        \/ StepReturns(i)
        \/ StepRaises(i)
        \/ StepWrites(i)

SpecScripts == InitScripts /\ [][NextScripts]_vars

(***************************************************************************)
(* Transformer runs: a source-specific transformer is handed the frame its *)
(* source returned and runs to its end.  pc names the transformer before   *)
(* the run and the transformer with "_done" after it; err tells whether it *)
(* returned or raised.                                                     *)
(***************************************************************************)
InitTransforms ==
    /\ df_original = EmptyTable
    /\ df = EmptyTable
    /\ ret = EmptyTable
    /\ logs = <<>>
    /\ err = ""
    /\ csv = NoFile
    /\ fields = <<>>
    /\ already_transformed_fields = <<>>
    /\ value = ""
    /\ member = 0
    /\ files = Untouched
    /\ procs = <<>>
    /\ result = <<>>
    /\ \/ /\ pc \in {"cmdc", "covid_county_data"}
          /\ source \in FetchedFrames
       \/ /\ pc \in {"covid_data_scraper", "remove_duplicate_city_data"}
          /\ source \in ScraperFrames
       \/ /\ pc = "parse_data"
          /\ source \in Sheets
       \/ /\ pc = "remove_backfilled_cases"
          /\ source \in BackfillInputs
       \/ /\ pc = "nha_hospitalization_county"
          /\ source \in NhaSheets
       \/ /\ pc = "replace_local_mirror"
          /\ source \in MirrorRuns

\* The run of transformer name ended with outcome r = [df, logs, err].
Ran(name, done, r) ==
    /\ pc = name
    /\ pc' = done
    /\ result' = r.df
    /\ logs' = r.logs
    /\ err' = r.err
    /\ UNCHANGED <<source, df_original, df, ret, csv, fields, already_transformed_fields,
                   value, member, scriptVars>>

\* update_cmdc.py: transformer.transform()
CmdcTransform == Ran("cmdc", "cmdc_done", CmdcTransformer_transform(source))

\* update_covid_county_data.py: transformer.transform()
CovidCountyDataTransform ==
    Ran("covid_county_data", "covid_county_data_done",
        CovidCountyDataTransformer_transform(source))

\* update_covid_data_scraper.py: transformer.transform()
CovidDataScraperTransform ==
    Ran("covid_data_scraper", "covid_data_scraper_done",
        CovidDataScraperTransformer_transform(source))

\* remove_duplicate_city_data(input_df), as the transformer and the tests call it
RemoveDuplicateCityData ==
    Ran("remove_duplicate_city_data", "remove_duplicate_city_data_done",
        [df |-> remove_duplicate_city_data(source), logs |-> <<>>, err |-> ""])

\* update_texas_tsa_hospitalizations.py: self.parse_data(data[sheet], field)
ParseData ==
    Ran("parse_data", "parse_data_done",
        [df |-> parse_data(source), logs |-> <<>>, err |-> ""])

\* update_nytimes_data.py: remove_backfilled_cases(data, BACKFILLED_CASES)
RemoveBackfilledCases ==
    LET r == remove_backfilled_cases(source.data, source.backfilled_cases)
    IN  Ran("remove_backfilled_cases", "remove_backfilled_cases_done",
            [df |-> r.df, logs |-> <<>>, err |-> r.err])

\* update_nha_hospitalization_county.py: CsvCopy.make_with_data_root(DATA_ROOT).transform()
CsvCopyTransform ==
    Ran("nha_hospitalization_county", "nha_hospitalization_county_done",
        CsvCopy_transform(source))

\* replace_local_mirror, lines 143-144: the keys are listed and grouped.  The
\* listing raises when the request fails or a page has no Contents, the
\* grouping when a key has fewer than four segments; the mirror is as it was.
GetLatestDelphiFiles ==
    \E listed \in BOOLEAN :
        LET error == IF ~ listed THEN "ClientError"
                     ELSE IF source.keys = <<>> THEN "KeyError"
                     ELSE IF \E i \in 1..Len(source.keys) : Len(source.keys[i]) < 4
                     THEN "IndexError"
                     ELSE ""
        IN  Ran("replace_local_mirror",
                IF error = "" THEN "replace_local_mirror_rmtree" ELSE "replace_local_mirror_done",
                [df   |-> [mirror   |-> source.mirror,
                           listed   |-> listed /\ source.keys # <<>>,
                           removed  |-> FALSE,
                           to_cache |-> IF error = ""
                                        THEN to_cache(group_covidcast_files_by_source(source.keys))
                                        ELSE <<>>,
                           cached   |-> <<>>],
                 logs |-> logs,
                 err  |-> error])

\* replace_local_mirror, lines 145-146: shutil.rmtree(self.local_mirror_dir)
RmtreeLocalMirror ==
    Ran("replace_local_mirror_rmtree", "replace_local_mirror_cache",
        [df   |-> [result EXCEPT !.mirror = {}, !.removed = TRUE],
         logs |-> logs \o <<Event("Removing existing local mirror directory")>>,
         err  |-> ""])

\* _cache_data_locally, lines 138-141: the next key is downloaded to
\* source_dir / filename, or the download raises; after the last one
\* replace_local_mirror logs that it is finished.
CacheDataLocally ==
    /\ pc = "replace_local_mirror_cache"
    /\ IF result.to_cache = <<>>
       THEN Ran("replace_local_mirror_cache", "replace_local_mirror_done",
                [df   |-> result,
                 logs |-> logs \o <<Event("Finished download to local mirror directory")>>,
                 err  |-> ""])
       ELSE LET next == Head(result.to_cache)
            IN  \/ Ran("replace_local_mirror_cache", "replace_local_mirror_cache",
                       [df   |-> [result EXCEPT
                                    !.mirror   = @ \cup {<<next.source_dir, next.key[Len(next.key)]>>},
                                    !.to_cache = Tail(@),
                                    !.cached   = Append(@, next.key)],
                        logs |-> logs \o <<Event("Downloading file")>>,
                        err  |-> ""])
                \/ Ran("replace_local_mirror_cache", "replace_local_mirror_done",
                       [df   |-> result,
                        logs |-> logs \o <<Event("Downloading file")>>,
                        err  |-> "ClientError"])

NextTransforms ==
    \/ CmdcTransform
    \/ CovidCountyDataTransform
    \/ CovidDataScraperTransform
    \/ RemoveDuplicateCityData
    \/ ParseData
    \/ RemoveBackfilledCases
    \/ CsvCopyTransform
    \/ GetLatestDelphiFiles
    \/ RmtreeLocalMirror
    \/ CacheDataLocally

SpecTransforms == InitTransforms /\ [][NextTransforms]_vars

(***************************************************************************)
(* Properties.                                                             *)
(***************************************************************************)
\* The names a table offers: its index levels and its columns.
Names(t) == Range(t.idx) \cup Range(t.cols)

HasKeys(t) == Range(COMMON_FIELDS_TIMESERIES_KEYS) \subseteq Names(t)

Events(l) == [i \in 1..Len(l) |-> l[i].event]

\* C1: whenever fips and date are available in the table handed to
\* fix_df_index, as columns or as index levels, fix_df_index returns a table
\* and its index names are exactly [fips, date], whatever the index was.
C1_IndexNamesAreKeys ==
    (pc = "fixed" /\ HasKeys(df)) =>
        (err = "" /\ ret.idx = <<"fips", "date">>)

\* C1 witness: a table indexed by the unrelated [date, cases] was fixed.
C1_Witness ==
    /\ pc = "fixed"
    /\ df.idx = <<"date", "cases">>
    /\ Len(df.rows) = 2
    /\ ret.idx = <<"fips", "date">>

\* The order the header of a written CSV must have after the index columns:
\* registry fields in registry order, then the others alphabetically.
HeaderOrdered(a, b) ==
    \/ a \in Range(CommonFields) /\ b \in Range(CommonFields)
       /\ Pos(CommonFields, a) < Pos(CommonFields, b)
    \/ a \in Range(CommonFields) /\ b \notin Range(CommonFields)
    \/ a \notin Range(CommonFields) /\ b \notin Range(CommonFields) /\ NameLess(a, b)

\* C2: the header of every written CSV is fips,date, then the registry
\* columns in registry order, then the other columns alphabetically, and it
\* holds every column of the table but a column named "index".
C2_HeaderOrder ==
    (pc = "written" /\ err = "") =>
        LET h == csv.header
        IN  /\ Len(h) >= 2
            /\ SubSeq(h, 1, 2) = <<"fips", "date">>
            /\ \A i, j \in 3..Len(h) : i < j => HeaderOrdered(h[i], h[j])
            /\ {h[i] : i \in 3..Len(h)} = (Names(df) \ {"fips", "date"}) \ {"index"}

\* C2 witness: the columns [extra2, cases, extra1] were written as
\* fips,date,cases,extra1,extra2.
C2_Witness ==
    /\ pc = "written"
    /\ df.idx = <<"fips", "date">>
    /\ df.cols = <<"extra2", "cases", "extra1">>
    /\ csv.header = <<"fips", "date", "cases", "extra1", "extra2">>

\* C3: for a table that has fips and date, write_csv writes the same file
\* whatever index the table carries: the file written for the table the
\* caller indexed is the file written for the caller's table with no index.
C3_SameCsvForAnyIndex ==
    (pc = "written" /\ HasKeys(df)) =>
        (err = "" /\ csv.exists /\ csv = write_csv(df_original).csv)

\* C3 witness: two rows out of order, handed over with index [date, cases].
C3_Witness ==
    /\ pc = "written"
    /\ df.idx = <<"date", "cases">>
    /\ Len(df.cols) = 3
    /\ Len(csv.lines) = 2
    /\ df_original.rows[1].v[Pos(df_original.cols, "fips")] = Fips2
    /\ df_original.rows[2].v[Pos(df_original.cols, "fips")] = Fips1

DropEvent == "Dropping column named 'index'"

\* C4: fix_df_index removes a column named "index" (also one that was an
\* index level before the reset), logs the warning exactly when there was
\* one, and removes no other column.
C4_IndexColumnDropped ==
    (pc = "fixed" /\ err = "") =>
        /\ Range(ret.cols) = (Names(df) \ {"fips", "date"}) \ {"index"}
        /\ Len(ret.cols) = Cardinality(Range(ret.cols))
        /\ ("index" \in Names(df)) <=> (DropEvent \in Range(Events(logs)))
        /\ Cardinality({i \in 1..Len(logs) : logs[i].event = DropEvent}) <= 1

\* C4 witness: a table with a column "index" and some rows was fixed.
C4_Witness ==
    /\ pc = "fixed"
    /\ "index" \in Range(df.cols)
    /\ Len(df.rows) > 0
    /\ DropEvent \in Range(Events(logs))
    /\ ret.cols = <<"cases">>

\* The source columns of df that the mapping sends to a registry field.
MappedColumns ==
    {c \in Range(df.cols) :
        \E i \in 1..Len(fields) : fields[i].name = c /\ fields[i].common_field # ""}

TargetOf(c) ==
    fields[CHOOSE i \in 1..Len(fields) : fields[i].name = c].common_field

\* The warning rename_fields is to log for the arguments of the state.
ExpectedRenameLogs ==
    LET extra   == {c \in Range(df.cols) :
                       /\ \A i \in 1..Len(fields) : fields[i].name # c
                       /\ c \notin Range(already_transformed_fields)}
        missing == {fields[i].name : i \in 1..Len(fields)} \ Range(df.cols)
    IN  IF extra = {} /\ missing = {} THEN <<>>
        ELSE << [event |-> "DataFrame columns do not match expected fields",
                 extra_fields |-> extra, missing_fields |-> missing] >>

\* A mapped source column that has the name of an already transformed field:
\* the case rename_fields raises AssertionError for.
SourceNamedLikeTransformed ==
    MappedColumns \cap Range(already_transformed_fields) # {}

\* C5 as stated: rename_fields logs one warning carrying extra and missing
\* when one of them is non-empty, none otherwise, and always returns a table.
C5_Original ==
    pc = "renamed" => (logs = ExpectedRenameLogs /\ err = "")

\* C5 amended: the warning is logged exactly as stated and never makes the
\* call fail; a table is returned unless a mapped source column has the name
\* of an already transformed field, and then AssertionError is raised after
\* the warning, if any, was logged.
C5_WarningNotFatal ==
    pc = "renamed" =>
        /\ logs = ExpectedRenameLogs
        /\ err = (IF SourceNamedLikeTransformed THEN "AssertionError" ELSE "")

\* C5 witness: a table with an unexpected column and a missing one was
\* renamed with a warning.
C5_Witness ==
    /\ pc = "renamed"
    /\ err = ""
    /\ Len(logs) = 1
    /\ logs[1].extra_fields = {"foobar"}
    /\ logs[1].missing_fields # {}
    /\ Len(ret.cols) >= 2

\* C6: the returned table holds exactly the already transformed columns
\* under their own names and the mapped columns under their targets' names,
\* each with the cells of its source column; dropped and unmapped columns
\* are absent.
C6_RenamedColumnsExact ==
    (pc = "renamed" /\ err = "") =>
        /\ Len(ret.rows) = 1
        /\ {<<ret.cols[j], ret.rows[1].v[j]>> : j \in 1..Len(ret.cols)}
           = {<<a, Str(<<a>>)>> : a \in Range(already_transformed_fields)}
             \cup {<<TargetOf(c), Str(<<c>>)>> : c \in MappedColumns}
        /\ Len(ret.cols)
           = Cardinality(Range(already_transformed_fields)) + Cardinality(MappedColumns)

\* C6 witness: the source had a column mapped to None, an unmapped column
\* and a mapped one.
C6_Witness ==
    /\ pc = "renamed"
    /\ err = ""
    /\ {"location", "foobar", "dt"} \subseteq Range(df.cols)
    /\ ret.cols = <<"date">>

\* The targets of the mapped columns of df, in the order given by seq.
TargetsInOrder(seq) ==
    LET keep == {i \in 1..Len(seq) : seq[i] \in MappedColumns}
        kept == SelectSeqIdx(seq, keep, 1)
    IN  [i \in 1..Len(kept) |-> TargetOf(kept[i])]

\* C7 as stated: the columns of the returned table are in mapping order.
C7_Original ==
    (pc = "renamed" /\ err = "") =>
        SubSeq(ret.cols, Len(already_transformed_fields) + 1, Len(ret.cols))
        = TargetsInOrder([i \in 1..Len(fields) |-> fields[i].name])

\* C7 amended: the returned table has the already transformed columns first
\* and then the mapped columns in the order of the input table's columns.
C7_InputColumnOrder ==
    (pc = "renamed" /\ err = "") =>
        /\ Range(SubSeq(ret.cols, 1, Len(already_transformed_fields)))
           = Range(already_transformed_fields)
        /\ SubSeq(ret.cols, Len(already_transformed_fields) + 1, Len(ret.cols))
           = TargetsInOrder(df.cols)

\* C7 witness: the table had its mapped columns in the reverse of the
\* mapping's order.
C7_Witness ==
    /\ pc = "renamed"
    /\ err = ""
    /\ df.cols = <<"cases_total", "fips", "dt">>
    /\ ret.cols = <<"fips", "cases", "date">>

\* C8: when two different source columns of the table map to the same target
\* field, rename_fields raises instead of returning a table.
C8_DuplicateTargetRaises ==
    (pc = "renamed"
       /\ \E c1, c2 \in MappedColumns : c1 # c2 /\ TargetOf(c1) = TargetOf(c2))
    => err # ""

\* Two rows of an indexed table share their index value.
DupKeys(t) == \E i, j \in 1..Len(t.rows) : i # j /\ t.rows[i].k = t.rows[j].k

\* The value of the column or index level named name in row i of t.
Cell(t, i, name) ==
    IF name \in Range(t.idx) THEN t.rows[i].k[Pos(t.idx, name)]
    ELSE t.rows[i].v[Pos(t.cols, name)]

\* Two rows of the table handed over share their (fips, date).
InputHasDupKeys ==
    \E i, j \in 1..Len(df.rows) :
        /\ i # j
        /\ Cell(df, i, "fips") = Cell(df, j, "fips")
        /\ Cell(df, i, "date") = Cell(df, j, "date")

\* C9 as stated: after normalisation no two rows share the same (fips, date).
C9_Original ==
    (pc = "fixed" /\ err = "") => ~DupKeys(ret)

\* C9 amended: fix_df_index and write_csv neither detect nor resolve
\* duplicate (fips, date) keys: every input row is kept, the result has two
\* rows with the same key exactly when the input has, and no event reports it.
C9_DuplicatesKeptUnreported ==
    /\ (pc = "fixed" /\ err = "") =>
          /\ Len(ret.rows) = Len(df.rows)
          /\ DupKeys(ret) <=> InputHasDupKeys
          /\ Range(Events(logs)) \subseteq {"Fixing DataFrame index", DropEvent}
    /\ (pc = "written" /\ err = "") =>
          /\ Len(csv.lines) = Len(df.rows)
          /\ Range(Events(logs))
             \subseteq {"Fixing DataFrame index", DropEvent, "Writing DataFrame"}

\* C9 witness: two rows with the same (fips, date) went through fix_df_index.
C9_Witness ==
    /\ pc = "fixed"
    /\ err = ""
    /\ InputHasDupKeys
    /\ Len(ret.rows) = 2
    /\ ret.rows[1].k = ret.rows[2].k
    /\ ret.rows[1].v # ret.rows[2].v

\* A date as read_csv represents it: a text YYYY-MM-DD as the Timestamp of
\* that day, a Timestamp as itself.
AsTimestamp(v) == IF v.k = "str" THEN ParseDate(v.s) ELSE v

\* The (fips, date, column, value) triples of a table.
Triples(t) ==
    {<<Cell(t, i, "fips"), AsTimestamp(Cell(t, i, "date")), c, Cell(t, i, c)>> :
        i \in 1..Len(t.rows), c \in Names(t) \ {"fips", "date"}}

\* C10 as stated: reading a written file back gives a table indexed by
\* (fips, date) with the triples of the original table.
C10_Original ==
    pc = "read" =>
        (err = "" /\ ret.idx = <<"fips", "date">> /\ Triples(ret) = Triples(df_original))

\* What a cell of column c of the original comes back as: a missing value
\* as missing, a number of a column of whole numbers as itself, any other
\* number rounded to 12 significant digits.
ReadBack(c, v) ==
    IF IsNA(v) THEN NA
    ELSE IF \A i \in 1..Len(df_original.rows) :
               LET w == Cell(df_original, i, c) IN IsNA(w) \/ IsIntegral(w)
    THEN v
    ELSE RoundSig(v, SigDigits)

\* C10 amended: reading a written file back gives a table indexed by
\* (fips, date) whose triples are those of the original with the column
\* "index" left out, every date taken at midnight of its day, and every
\* number of a column that holds a fraction rounded to 12 significant digits.
C10_RoundTripUpToFormat ==
    pc = "read" =>
        /\ err = ""
        /\ ret.idx = <<"fips", "date">>
        /\ Triples(ret)
           = {<<Cell(df_original, i, "fips"),
                [AsTimestamp(Cell(df_original, i, "date")) EXCEPT !.tod = 0],
                c,
                ReadBack(c, Cell(df_original, i, c))>> :
                 i \in 1..Len(df_original.rows),
                 c \in Names(df_original) \ {"fips", "date", "index"}}

\* C10 witness: a table with a 14 digit fraction and a missing value was
\* written and read back.
C10_Witness ==
    /\ pc = "read"
    /\ Len(df_original.rows) = 2
    /\ \E i, j \in 1..2 : /\ Cell(df_original, i, "cases") = VLong
                          /\ Cell(df_original, j, "cases") = NA
    /\ \E i \in 1..2 : ret.rows[i].v[1] = RoundSig(VLong, SigDigits)

(***************************************************************************)
(* Number and missing-value formatting of written files.                   *)
(***************************************************************************)
\* The data columns of a table: everything but the keys and "index".
DataColumns(t) == Names(t) \ {"fips", "date", "index"}

\* The text a key cell is written as.
KeyText(v) == IF v.k = "ts" THEN FormatDate(v) ELSE v.s

\* The fields of the data lines of a file, each with the keys of its line
\* and the name of its column.
Fields(file) ==
    {<<file.lines[i][1], file.lines[i][2], file.header[j], file.lines[i][j]>> :
        i \in 1..Len(file.lines), j \in 3..Len(file.header)}

\* Every present value of column c of t is a whole number.
WholeColumn(t, c) ==
    \A i \in 1..Len(t.rows) : LET w == Cell(t, i, c) IN IsNA(w) \/ IsIntegral(w)

\* The field that row i of df has in column c of the file, given its text.
FieldOf(i, c, text) ==
    <<KeyText(Cell(df, i, "fips")), KeyText(Cell(df, i, "date")), c, text>>

\* C11 as stated: in every written file a whole number is written as its
\* integer digits, without a decimal point, and a missing cell as an empty
\* field.
C11_Original ==
    (pc = "written" /\ err = "") =>
        \A i \in 1..Len(df.rows), c \in DataColumns(df) :
            LET v == Cell(df, i, c)
            IN  /\ IsNA(v) => FieldOf(i, c, <<>>) \in Fields(csv)
                /\ (IsNum(v) /\ IsIntegral(v)) =>
                       /\ FieldOf(i, c, IntText(v)) \in Fields(csv)
                       /\ \A f \in Fields(csv) :
                             (f[1] = FieldOf(i, c, <<>>)[1] /\ f[2] = FieldOf(i, c, <<>>)[2]
                                /\ f[3] = c) => "." \notin Range(f[4])

\* C11 amended: a missing cell is written as an empty field; a whole number
\* is written as its integer digits, without a decimal point, when its
\* column holds only whole numbers and missing values or when it is below
\* 10^12 in magnitude; a whole number of 10^12 or more in a column that also
\* holds a fraction is written in exponent form with 12 significant digits.
C11_WholeNumbersAndMissing ==
    (pc = "written" /\ err = "") =>
        \A i \in 1..Len(df.rows), c \in DataColumns(df) :
            LET v == Cell(df, i, c)
            IN  /\ IsNA(v) => FieldOf(i, c, <<>>) \in Fields(csv)
                /\ (IsNum(v) /\ IsIntegral(v) /\ (WholeColumn(df, c) \/ v.exp < SigDigits)) =>
                       FieldOf(i, c, IntText(v)) \in Fields(csv)
                /\ (IsNum(v) /\ IsIntegral(v) /\ ~WholeColumn(df, c) /\ v.exp >= SigDigits) =>
                       /\ FieldOf(i, c, FormatG(v)) \in Fields(csv)
                       /\ "e" \in Range(FormatG(v))

\* C11 witness: a column mixing a 13 digit whole number with a missing value
\* was written as the plain digits and an empty field.
C11_Witness ==
    /\ pc = "written"
    /\ df.cols = <<"date", "fips", "cases">>
    /\ Len(csv.lines) = 2
    /\ csv.lines[1][3] = <<>>
    /\ csv.lines[2][3] = <<"1", "2", "3", "4", "5", "6", "7", "8", "9", "0", "1", "2", "3">>

(***************************************************************************)
(* Frame of write_csv and fix_df_index.                                    *)
(***************************************************************************)
\* C12: no step changes the caller's table, and a write_csv or fix_df_index
\* call leaves the table it was handed (the caller's table or a re-indexed
\* copy) with the index, columns, row order and values it had.
C12_CallerTableUnchanged ==
    [][/\ df_original' = df_original
       /\ (pc' \in {"written", "fixed"}) => df' = df]_vars

\* C12 witness: the caller handed over its own table, with two rows out of
\* order and a column named "index", and write_csv had to fix all of it.
C12_Witness ==
    /\ pc = "written"
    /\ err = ""
    /\ df = df_original
    /\ df.cols = <<"fips", "date", "index", "cases">>
    /\ Len(df.rows) = 2
    /\ df.rows[1].v[1] = Fips2
    /\ df.rows[2].v[1] = Fips1
    /\ Len(logs) = 3

(***************************************************************************)
(* Log events of write_csv.                                                *)
(***************************************************************************)
\* The events of a write_csv call on t that runs to its end: the index fix
\* when the index names differ from [fips, date], the drop when a column
\* named "index" exists once the index is fixed, then the write.
ExpectedEvents(t) ==
    (IF t.idx # <<"fips", "date">> THEN <<"Fixing DataFrame index">> ELSE <<>>)
    \o (IF "index" \in Names(t) THEN <<DropEvent>> ELSE <<>>)
    \o <<"Writing DataFrame">>

NotCommon == {c \in Range(df.cols) : c \notin Range(CommonFields)}

\* C14: only_common_columns returns the table handed over without the
\* columns that are not CommonFields values: the index, the rows, the other
\* columns, their order and their cells are kept; the warning "Dropping
\* columns not in CommonFields" carries the removed names and is logged if
\* and only if a column was removed.
C14_OnlyCommonColumns ==
    pc = "common" =>
        /\ err = ""
        /\ ret.idx = df.idx
        /\ ret.cols = SelectSeqIdx(df.cols, {j \in 1..Len(df.cols) : df.cols[j] \notin NotCommon}, 1)
        /\ Len(ret.rows) = Len(df.rows)
        /\ \A i \in 1..Len(df.rows) :
              /\ ret.rows[i].k = df.rows[i].k
              /\ \A c \in Range(ret.cols) : Cell(ret, i, c) = Cell(df, i, c)
        /\ logs = IF NotCommon = {} THEN <<>>
                  ELSE << [event |-> "Dropping columns not in CommonFields",
                           extra_columns |-> NotCommon] >>

\* C14 witness: extra1 and extra2 were dropped around cases, with rows.
C14_Witness ==
    /\ pc = "common"
    /\ df.idx = <<"fips", "date">>
    /\ df.cols = <<"extra2", "cases", "extra1">>
    /\ Len(df.rows) = 2
    /\ ret.cols = <<"cases">>
    /\ Len(logs) = 1
    /\ logs[1].extra_columns = {"extra1", "extra2"}

\* C15: CommonFields.get(value) returns the member whose value is exactly
\* value, and None when no member has that value (a member name, another
\* case, a blank more); it does not raise.
C15_GetByValue ==
    pc = "looked" =>
        /\ err = ""
        /\ IF \E i \in 1..Len(CommonFields) : CommonFields[i] = value
           THEN member \in 1..Len(CommonFields) /\ CommonFields[member] = value
           ELSE member = 0

\* C15 witness: the member name FIPS is not a value, get returned None.
C15_Witness ==
    /\ pc = "looked"
    /\ value = "FIPS"
    /\ member = 0

(***************************************************************************)
(* Script runs.                                                            *)
(***************************************************************************)
\* C16: when a fetch or a configuration check of a script run raises, the
\* run has created or overwritten no file: no data file, no version.txt, no
\* timeseries CSV.
C16_NoOutputOnFailure ==
    \A i \in 1..Len(procs) : procs[i].status = "failed" => procs[i].wrote = {}

\* The script that wrote path p last.
LastWriter(p) == Programs[procs[files[p]].prog].script

\* C17: two distinct scripts run concurrently never write the same path,
\* and when both have ended the files each of them wrote (its data and its
\* version stamp) all hold the output of one script.
C17_NoInterference ==
    (Len(procs) = 2 /\ procs[2].prog # 0
       /\ Programs[procs[1].prog].script # Programs[procs[2].prog].script) =>
        /\ procs[1].wrote \cap procs[2].wrote = {}
        /\ (\A i \in 1..2 : procs[i].status # "running") =>
              \A i \in 1..2 : \A p, q \in procs[i].wrote : LastWriter(p) = LastWriter(q)

(***************************************************************************)
(* Row order and row set of fix_df_index.                                  *)
(***************************************************************************)
\* The rows of t are in ascending order of their index values.
RowsSorted(t) ==
    \A i, j \in 1..Len(t.rows) : i < j => ~KeyLess(t.rows[j].k, t.rows[i].k)

\* The data lines of a file are in ascending order of the texts of their
\* first two fields.
LinesSorted(file) ==
    \A i, j \in 1..Len(file.lines) :
        i < j =>
            LET a == file.lines[i]
                b == file.lines[j]
            IN  ~(TextLess(b[1], a[1]) \/ (b[1] = a[1] /\ TextLess(b[2], a[2])))

\* C18: the rows fix_df_index returns are in ascending lexicographic order
\* of (fips, date), and so are the data lines of a written file, whatever
\* the row order of the input.
C18_RowsAscending ==
    /\ (pc = "fixed" /\ err = "") => (ret.idx = <<"fips", "date">> /\ RowsSorted(ret))
    /\ (pc = "written" /\ err = "") =>
          (SubSeq(csv.header, 1, 2) = <<"fips", "date">> /\ LinesSorted(csv))

\* C18 witness: two rows handed over in descending order came back
\* ascending.
C18_Witness ==
    /\ pc = "fixed"
    /\ err = ""
    /\ Len(df.rows) = 2
    /\ Cell(df, 1, "fips") = Fips2
    /\ Cell(df, 2, "fips") = Fips1
    /\ Cell(ret, 1, "fips") = Fips1
    /\ Cell(ret, 2, "fips") = Fips2

\* Row i of t as a function of the names t has, the column "index" left out.
RowOf(t, i) == [c \in Names(t) \ {"index"} |-> Cell(t, i, c)]

\* How many rows of t are the row r.
CountRows(t, r) == Cardinality({i \in 1..Len(t.rows) : RowOf(t, i) = r})

\* How many data lines of a file carry the key texts f and d.
CountLines(file, f, d) ==
    Cardinality({i \in 1..Len(file.lines) : file.lines[i][1] = f /\ file.lines[i][2] = d})

\* C19: fix_df_index removes, merges and picks no row: every row of the
\* input is in the result as many times as in the input and the result has
\* no other row, also for rows that share their (fips, date); the written
\* file has one data line for each input row.
C19_RowsKept ==
    /\ (pc = "fixed" /\ err = "") =>
          /\ Len(ret.rows) = Len(df.rows)
          /\ \A i \in 1..Len(df.rows) : CountRows(ret, RowOf(df, i)) = CountRows(df, RowOf(df, i))
    /\ (pc = "written" /\ err = "") =>
          /\ Len(csv.lines) = Len(df.rows)
          /\ \A i \in 1..Len(df.rows) :
                LET f == KeyText(Cell(df, i, "fips"))
                    d == KeyText(Cell(df, i, "date"))
                IN  CountLines(csv, f, d)
                    = Cardinality({h \in 1..Len(df.rows) :
                                     /\ KeyText(Cell(df, h, "fips")) = f
                                     /\ KeyText(Cell(df, h, "date")) = d})

\* C19 witness: two rows with the same (fips, date) and different values
\* were written as two data lines.
C19_Witness ==
    /\ pc = "written"
    /\ err = ""
    /\ Len(df.rows) = 2
    /\ InputHasDupKeys
    /\ RowOf(df, 1) # RowOf(df, 2)
    /\ Len(csv.lines) = 2
    /\ csv.lines[1][1] = csv.lines[2][1]
    /\ csv.lines[1][2] = csv.lines[2][2]
    /\ csv.lines[1] # csv.lines[2]

\* The columns of t are in the order of sort_common_field_columns.
ColumnsOrdered(t) ==
    \A i, j \in 1..Len(t.cols) : i < j => HeaderOrdered(t.cols[i], t.cols[j])

CountyTransformDone == pc \in {"cmdc_done", "covid_county_data_done"}

SourceFips(i) == FipsOfLocation(source[i].location)

\* The source rows of counties (fips of five characters) the county
\* reference data has no row for.
CountyNoMatch ==
    {i \in 1..Len(source) :
        /\ Len(SourceFips(i).s) = 5
        /\ \A x \in load_county_fips_data : x.fips # SourceFips(i)}

\* Two source rows with the same fips and date.
SourceDuplicates ==
    {i \in 1..Len(source) :
        \E j \in 1..Len(source) : j # i /\ source[j].location = source[i].location
                                        /\ source[j].dt = source[i].dt}

NoMatchEvents == SelectSeq(logs, LAMBDA e : e.event = "Some counties did not match by fips")

\* The matched county source rows with a date that the transformer that ran
\* does not drop for another reason (CmdcTransformer drops the rows of FL).
KeptCountyRows ==
    {i \in 1..Len(source) :
        /\ Len(SourceFips(i).s) = 5
        /\ i \notin CountyNoMatch
        /\ ~IsNA(source[i].dt)
        /\ pc = "cmdc_done" => SubSeq(SourceFips(i).s, 1, 2) # <<"1", "2">>}

\* C21: a county row whose fips has no match in the county reference data is
\* absent from the output; the warning "Some counties did not match by fips"
\* is logged exactly once when there is such a row (and not otherwise) and
\* lists each unmatched fips once; the unmatched rows do not abort the run
\* (only a duplicated key raises) and the matched county rows are returned.
C21_UnmatchedCountiesDropped ==
    CountyTransformDone =>
        /\ \A k \in 1..Len(result), i \in CountyNoMatch : result[k].fips # SourceFips(i)
        /\ Len(NoMatchEvents) = (IF CountyNoMatch # {} THEN 1 ELSE 0)
        /\ CountyNoMatch # {} =>
              LET bad_fips == NoMatchEvents[1].bad_fips
              IN  /\ Range(bad_fips) = {SourceFips(i) : i \in CountyNoMatch}
                  /\ \A a, b \in 1..Len(bad_fips) : a # b => bad_fips[a] # bad_fips[b]
        /\ err # "" => SourceDuplicates # {}
        /\ err = "" =>
              \A i \in KeptCountyRows :
                  \E k \in 1..Len(result) :
                      /\ result[k].fips = SourceFips(i)
                      /\ result[k].date = source[i].dt
                      /\ result[k].cases = source[i].cases_total

\* Two rows of one unmatched county and a matched county: warned once, the
\* matched row returned.
C21_Witness ==
    /\ CountyTransformDone
    /\ err = ""
    /\ Cardinality(CountyNoMatch) = 2
    /\ Len(NoMatchEvents) = 1
    /\ Len(NoMatchEvents[1].bad_fips) = 1
    /\ Len(result) = 1
    /\ KeptCountyRows # {}

\* The source rows that reach the null check (the unmatched counties are
\* gone by then) with a null date, or a state fips the state reference data
\* has no row for, such as "00" of location 0.
NullAfterMerge ==
    {i \in 1..Len(source) :
        /\ i \notin CountyNoMatch
        /\ \/ IsNA(source[i].dt)
           \/ /\ Len(SourceFips(i).s) = 2
              /\ \A x \in load_census_state : x.fips # SourceFips(i)}

NullEvents ==
    SelectSeq(logs, LAMBDA e : e.event = "Dropping rows with null in important columns")

\* C22: every returned row has a fips, a date and a state; no source row
\* whose date or state is null after the reference merges is returned; the
\* warning "Dropping rows with null in important columns" is logged (once,
\* with exactly those rows) if and only if there is such a row.
C22_NoNullKeys ==
    CountyTransformDone =>
        /\ \A k \in 1..Len(result) :
              /\ ~IsNA(result[k].fips) /\ ~IsNA(result[k].date) /\ ~IsNA(result[k].state)
              /\ \A i \in NullAfterMerge : result[k].cases # source[i].cases_total
        /\ Len(NullEvents) = (IF NullAfterMerge # {} THEN 1 ELSE 0)
        /\ NullAfterMerge # {} =>
              {r.cases : r \in Range(NullEvents[1].bad_rows)}
                  = {source[i].cases_total : i \in NullAfterMerge}

\* Location 0 next to a row that is returned.
C22_Witness ==
    /\ CountyTransformDone
    /\ err = ""
    /\ \E i \in NullAfterMerge : source[i].location = 0 /\ ~IsNA(source[i].dt)
    /\ Len(NullEvents) = 1
    /\ Len(result) >= 1

\* The rows that reach set_index: neither unmatched, nor null, nor (for
\* CmdcTransformer) of FL.
Survivors ==
    {i \in 1..Len(source) :
        /\ i \notin CountyNoMatch
        /\ i \notin NullAfterMerge
        /\ pc = "cmdc_done" => SubSeq(SourceFips(i).s, 1, 2) # <<"1", "2">>}

SurvivingDuplicates ==
    {i \in Survivors :
        \E j \in Survivors : j # i /\ source[j].location = source[i].location
                                   /\ source[j].dt = source[i].dt}

\* C23 as stated: when two surviving rows share (fips, date) the duplicate is
\* logged and the run is not aborted: the transformer returns.
C23_Original ==
    CountyTransformDone /\ SurvivingDuplicates # {} =>
        /\ err = ""
        /\ \E k \in 1..Len(logs) :
              logs[k].event \notin {"Some counties did not match by fips",
                                    "Dropping rows with null in important columns",
                                    "Dropping rows for FL"}

\* C23: when two rows that survive the earlier filters share (fips, date),
\* the transformer raises ValueError and returns no row; it logs nothing
\* about the duplicate.  Without such rows it returns every surviving row,
\* states first, each part in source order.
C23_DuplicateKeysRaise ==
    CountyTransformDone =>
        /\ (err = "ValueError") = (SurvivingDuplicates # {})
        /\ err \in {"", "ValueError"}
        /\ err # "" => result = <<>>
        /\ \A k \in 1..Len(logs) :
              logs[k].event \in {"Some counties did not match by fips",
                                 "Dropping rows with null in important columns",
                                 "Dropping rows for FL"}
        /\ err = "" =>
              /\ {r.cases : r \in Range(result)} = {source[i].cases_total : i \in Survivors}
              /\ Len(result) = Cardinality(Survivors)

\* Two rows of one matched county on one day, and a third row.
C23_Witness ==
    /\ CountyTransformDone
    /\ err = "ValueError"
    /\ Cardinality(SurvivingDuplicates) = 2
    /\ Cardinality(Survivors) = 3

(***************************************************************************)
(* C24, C27: update_covid_data_scraper.py.                                 *)
(***************************************************************************)
NewYork == Str(SubSeq(NewYorkCity, 1, 8))

\* Source row i as it reaches the duplicate check, worked out row by row:
\* whether it is still there, and its (fips, date).
ScraperKey(i) ==
    LET r      == source[i]
        pre    == ~IsNA(r.date) /\ ValLess(r.date, Ts(2020, 3, 23, 0))
        city   == str_strip(r.city)
        county == IF pre /\ IsNA(r.county) /\ ~IsNA(city)
                  THEN (IF city = Str(NewYorkCity) THEN NewYork ELSE city)
                  ELSE str_strip(r.county)
        fips   == FipsOfCounty(StateAbbrev(str_strip(r.state)), county)
    IN  [there |-> /\ pre \/ IsNA(city)
                   /\ str_strip(r.country) = Str(UnitedStatesText)
                   /\ ~IsNA(fips),
         fips  |-> fips,
         date  |-> r.date]

\* The source rows that reach the duplicate check with the key of row i.
SameScraperKey(i) ==
    {j \in 1..Len(source) :
        /\ ScraperKey(j).there
        /\ ScraperKey(j).fips = ScraperKey(i).fips
        /\ ScraperKey(j).date = ScraperKey(i).date}

DuplicateEvents == SelectSeq(logs, LAMBDA e : e.event = "Removing duplicates")

\* C24: of the rows that share a (date, fips) with another row none is
\* returned, a row whose (date, fips) occurs once is returned, "Removing
\* duplicates" is logged once when there is a shared key and not otherwise,
\* and the returned table has no two rows with the same (fips, date).
C24_AllDuplicatesRemoved ==
    pc = "covid_data_scraper_done" =>
        /\ err = ""
        /\ \A i \in 1..Len(source) :
              Cardinality({k \in 1..Len(result) : result[k].positive_tests = source[i].cases})
                  = (IF ScraperKey(i).there /\ Cardinality(SameScraperKey(i)) = 1 THEN 1 ELSE 0)
        /\ \A k \in 1..Len(result) :
              \E i \in 1..Len(source) :
                  /\ result[k].positive_tests = source[i].cases
                  /\ result[k].fips = ScraperKey(i).fips
                  /\ result[k].date = ScraperKey(i).date
        /\ \A k, l \in 1..Len(result) :
              k # l => result[k].fips # result[l].fips \/ result[k].date # result[l].date
        /\ Len(DuplicateEvents)
              = (IF \E i \in 1..Len(source) :
                        ScraperKey(i).there /\ Cardinality(SameScraperKey(i)) >= 2
                 THEN 1 ELSE 0)

\* Two rows of one county and day, both removed, next to a row that is kept.
C24_Witness ==
    /\ pc = "covid_data_scraper_done"
    /\ Len(source) = 3
    /\ Cardinality(SameScraperKey(1)) = 2
    /\ ScraperKey(1).there
    /\ ScraperKey(3).there
    /\ Cardinality(SameScraperKey(3)) = 1
    /\ Len(result) = 1
    /\ Len(DuplicateEvents) = 1

\* C27: remove_duplicate_city_data keeps every row dated before 2020-03-23;
\* such a row with no county and a city gets the city as its county, "New
\* York" for "New York City"; a row dated on or after 2020-03-23 is kept if
\* and only if it has no city; a row that has a county keeps it; nothing
\* else of a row changes.
C27_CityRows ==
    pc = "remove_duplicate_city_data_done" =>
        \A i \in 1..Len(source) :
            LET r    == source[i]
                out  == {k \in 1..Len(result) : result[k].cases = r.cases}
                kept == result[CHOOSE k \in out : TRUE]
            IN  /\ Cardinality(out) <= 1
                /\ ~IsNA(r.date) /\ ValLess(r.date, Ts(2020, 3, 23, 0)) =>
                      /\ Cardinality(out) = 1
                      /\ IsNA(r.county) /\ ~IsNA(r.city) =>
                            kept.county = (IF r.city = Str(NewYorkCity)
                                           THEN NewYork ELSE r.city)
                /\ ~IsNA(r.date) /\ ~ValLess(r.date, Ts(2020, 3, 23, 0)) =>
                      (Cardinality(out) = 1) = IsNA(r.city)
                /\ Cardinality(out) = 1 =>
                      /\ ~IsNA(r.county) => kept.county = r.county
                      /\ kept = [r EXCEPT !.county = kept.county]

\* A New York City row of March 22 and a city row of March 23.
C27_Witness ==
    /\ pc = "remove_duplicate_city_data_done"
    /\ Len(source) = 2
    /\ source[1].city = Str(NewYorkCity)
    /\ ~IsNA(source[2].city) /\ source[2].date = Ts(2020, 3, 23, 0)
    /\ Len(result) = 1
    /\ result[1].county = NewYork

(***************************************************************************)
(* C25: update_texas_tsa_hospitalizations.py.                              *)
(***************************************************************************)
\* C25 as stated: the table parse_data returns has at most one row per
\* (TSA ID, TSA AREA, date).
C25_OneRowPerKey ==
    pc = "parse_data_done" =>
        \A k, l \in 1..Len(result) :
            k # l => \/ result[k].id # result[l].id
                     \/ result[k].area # result[l].area
                     \/ result[k].date # result[l].date

(***************************************************************************)
(* C26: update_nytimes_data.py.                                            *)
(***************************************************************************)
\* The counties of the backfill's state but the unknown one, by fips.
BackfillCounties ==
    {source.data[i].fips : i \in {k \in 1..Len(source.data) :
        /\ SubSeq(source.data[k].fips.s, 1, 2) = source.backfilled_cases[1][1]
        /\ SubSeq(source.data[k].fips.s, 3, 5) # <<"9", "9", "9">>}}

\* The cases of county f on the day d of July, -1 when it has no row.
CasesOn(f, d) ==
    IF \E i \in 1..Len(source.data) :
           source.data[i].fips = f /\ source.data[i].date = Ts(2020, 7, d, 0)
    THEN source.data[CHOOSE i \in 1..Len(source.data) :
           source.data[i].fips = f /\ source.data[i].date = Ts(2020, 7, d, 0)].cases
    ELSE 0 - 1

\* A county's new cases on the day: the difference to its own previous day.
NewCasesOn(f, d) == CasesOn(f, d) - CasesOn(f, d - 1)

RECURSIVE SumNewCases(_, _)
SumNewCases(fs, d) ==
    IF fs = {} THEN 0
    ELSE LET f == CHOOSE x \in fs : TRUE
         IN  NewCasesOn(f, d) + SumNewCases(fs \ {f}, d)

\* C26 as stated, for one backfill record (state, date, n) and a state whose
\* counties all have a row on the date and on the day before: every row of
\* such a county dated on or after the date has lost round(n * the county's
\* new cases / the sum of the counties' new cases), all of n when the state
\* has a single county; every other row is unchanged.
C26_ProportionalRemoval ==
    /\ pc = "remove_backfilled_cases_done"
    /\ Len(source.backfilled_cases) = 1
    /\ BackfillCounties # {}
    /\ \A f \in BackfillCounties :
          CasesOn(f, source.backfilled_cases[1][2].d) >= 0
          /\ CasesOn(f, source.backfilled_cases[1][2].d - 1) >= 0
    /\ \/ Cardinality(BackfillCounties) = 1
       \/ SumNewCases(BackfillCounties, source.backfilled_cases[1][2].d) # 0
    =>
    LET d == source.backfilled_cases[1][2].d
        n == source.backfilled_cases[1][3]
        removed(f) == IF Cardinality(BackfillCounties) = 1 THEN n
                      ELSE RoundHalfEven(n * NewCasesOn(f, d), SumNewCases(BackfillCounties, d))
    IN  /\ err = ""
        /\ Len(result) = Len(source.data)
        /\ \A i \in 1..Len(result) :
              /\ result[i].fips = source.data[i].fips
              /\ result[i].date = source.data[i].date
              /\ result[i].cases =
                    source.data[i].cases
                    - (IF source.data[i].fips \in BackfillCounties /\ source.data[i].date.d >= d
                       THEN removed(source.data[i].fips) ELSE 0)

(***************************************************************************)
(* C28: update_nha_hospitalization_county.py.                              *)
(***************************************************************************)
NhaTransformDone == pc = "nha_hospitalization_county_done" /\ err = ""

\* The row has a date and its month is one of April to December.
NhaDateAccepted(i) ==
    /\ source.rows[i].date # <<>>
    /\ NatOf(SubSeq(source.rows[i].date, 1, SpanDigits(source.rows[i].date, 1))) \in 4..12

NevadaCounty(name) ==
    \E x \in load_county_fips_data : x.state = Str(<<"N", "V">>) /\ x.county = Str(name)

\* The row's county name is a Nevada county's, as given or with " County".
NhaCountyFound(i) ==
    \/ NevadaCounty(source.rows[i].county_name)
    \/ NevadaCounty(source.rows[i].county_name \o <<" ", "C", "o", "u", "n", "t", "y">>)

NhaEmitted == {i \in 1..Len(source.rows) : NhaDateAccepted(i) /\ NhaCountyFound(i)}

CountEvents(name) == Cardinality({k \in 1..Len(logs) : logs[k].event = name})

\* C28: when CsvCopy.transform returns, a row with an accepted date whose
\* county name is no Nevada county's, as given or with " County" appended, is
\* not in the result and has logged one error "Imported county name not found
\* in FIPS data"; every other row with an accepted date is in the result, in
\* the order of the sheet, with the matched county name and that county's
\* fips; its value is kept when it is a number and else removed with one
\* error "Dropping value not a float", the row staying in the result.
C28_BadCountyAndBadFloat ==
    NhaTransformDone =>
    /\ Len(result) = Cardinality(NhaEmitted)
    /\ \A j \in 1..Len(result) :
          LET row == loc(source.rows, NhaEmitted)[j]
          IN  /\ result[j].county \in
                    {Str(row.county_name),
                     Str(row.county_name \o <<" ", "C", "o", "u", "n", "t", "y">>)}
              /\ \E x \in load_county_fips_data :
                    /\ x.state = Str(<<"N", "V">>)
                    /\ x.county = result[j].county
                    /\ x.fips = result[j].fips
              /\ result[j].vents =
                    IF ParseNumber(row.vents).ok THEN Str(row.vents) ELSE NA
    /\ CountEvents("Imported county name not found in FIPS data")
          = Cardinality({i \in 1..Len(source.rows) :
                            NhaDateAccepted(i) /\ ~ NhaCountyFound(i)})
    /\ CountEvents("Dropping value not a float")
          = Cardinality({i \in NhaEmitted : ~ ParseNumber(source.rows[i].vents).ok})

\* A sheet whose first row names a county of another state and whose second
\* row names Clark and holds #REF!: the first row is left out, the second is
\* returned as Clark County, 32003, without the value, and both errors are
\* logged.
C28_Witness ==
    /\ NhaTransformDone
    /\ Len(source.rows) = 2
    /\ NhaDateAccepted(1) /\ ~ NhaCountyFound(1)
    /\ NhaDateAccepted(2)
    /\ source.rows[2].county_name = <<"C", "l", "a", "r", "k">>
    /\ source.rows[2].vents = <<"#", "R", "E", "F", "!">>
    /\ Len(result) = 1
    /\ result[1].county = Str(<<"C", "l", "a", "r", "k", " ", "C", "o", "u", "n", "t", "y">>)
    /\ result[1].fips = Str(<<"3", "2", "0", "0", "3">>)
    /\ IsNA(result[1].vents)
    /\ Events(logs) = <<"Fetching URL", "Imported county name not found in FIPS data",
                        "Dropping value not a float">>

(***************************************************************************)
(* C29: update_aws_lake.py.                                                *)
(***************************************************************************)
MirrorListed == pc \in {"replace_local_mirror_rmtree", "replace_local_mirror_cache",
                        "replace_local_mirror_done"}

StartsWithJhu(key) == Len(key[4]) >= 3 /\ key[4][1] = "j" /\ key[4][2] = "h" /\ key[4][3] = "u"

\* C29: in a run of replace_local_mirror the mirror is removed only once the
\* listing has completed, so a run whose listing failed leaves the mirror as
\* it was; nothing is downloaded before the mirror is removed; and no key of
\* a source that starts with "jhu" and no metadata file is ever downloaded.
C29_ListThenRemoveThenDownload ==
    MirrorListed =>
    /\ result.removed => result.listed
    /\ ~ result.listed => result.mirror = source.mirror
    /\ ~ result.removed => result.mirror = source.mirror
    /\ result.cached # <<>> => result.removed
    /\ \A i \in 1..Len(result.cached) :
          /\ ~ StartsWithJhu(result.cached[i])
          /\ result.cached[i][Len(result.cached[i])] # MetadataJson
    /\ \A f \in result.mirror :
          result.removed => \E i \in 1..Len(result.cached) :
                               f = <<result.cached[i][4], result.cached[i][5]>>

\* A run over a bucket with a ght file, a jhu-csse file and the metadata
\* file and a mirror that held an old file: the run ends with the ght file
\* alone in the mirror.
C29_Witness ==
    /\ pc = "replace_local_mirror_done"
    /\ err = ""
    /\ source.mirror # {}
    /\ Len(source.keys) = 3
    /\ \E i \in 1..3 : StartsWithJhu(source.keys[i])
    /\ \E i \in 1..3 : source.keys[i][4] = MetadataJson
    /\ Len(result.cached) = 1
    /\ result.mirror = {<<<<"g", "h", "t">>, <<"p", "0">>>>}
    /\ Events(logs) = <<"Removing existing local mirror directory", "Downloading file",
                        "Finished download to local mirror directory">>

(***************************************************************************)
(* C30: fix_df_index applied to its own result.                            *)
(***************************************************************************)
\* C30: when fix_df_index has returned a table, applying it to that table
\* returns without an error a table equal to it in index, row order, column
\* order and values, and logs nothing, so neither "Fixing DataFrame index"
\* nor "Dropping column named 'index'".
C30_Idempotent ==
    [][pc = "fixed" /\ pc' = "fixed_again" => ret' = ret /\ logs' = logs /\ err' = ""]_vars

\* A second application to a table that the first one had to fix and to rid
\* of its "index" column, with two rows of the same fips and date that
\* differ in a value.
C30_Witness ==
    /\ pc = "fixed_again"
    /\ err = ""
    /\ "Fixing DataFrame index" \in Range(Events(logs))
    /\ "Dropping column named 'index'" \in Range(Events(logs))
    /\ ret.idx = COMMON_FIELDS_TIMESERIES_KEYS
    /\ \E i \in 1..(Len(ret.rows) - 1) :
          ret.rows[i].k = ret.rows[i + 1].k /\ ret.rows[i].v # ret.rows[i + 1].v

=============================================================================
